---- MODULE Spec2Model ----
(***************************************************************************)
(* A model of vue-cal's event utilities: the event factory, the multi-day  *)
(* segmentation engine, the overlap/streak computation and eventInRange.   *)
(*                                                                         *)
(* Instants are JavaScript time values: integer milliseconds.  The local   *)
(* time zone has a constant offset, and instant 0 is the local midnight    *)
(* that starts civil day 0, a Monday.  A `YYYY-MM-DD` string is the civil  *)
(* day's index; a `YYYY-MM-DD HH:mm` string is a record of the day, the    *)
(* two hour digits and the two minute digits.                              *)
(***************************************************************************)
EXTENDS Integers, Sequences, FiniteSets, TLC

\* ------------------------------------------------------------ bounds
MaxDay == 7
MaxEndDay == 5
MaxEvents == 1
MaxIds == 2
MaxCellEvents == 3
MaxCollectionIds == 3
FirstYear == 2019
MaxYears == 2
MaxMonths == 2
MaxDates == 2
MaxLoopDays == 3
MaxIterations == 6
MaxStreakEvents == 6

\* --------------------------------------------------------- constants
defaultEventDuration == 2
minutesInADay == 24 * 60
dayMilliseconds == 24 * 3600 * 1000

\* --------------------------------------------------- JavaScript values
\* NaN, also the time value of an Invalid Date and an `undefined` number.
NaN == 0 - 2000000000
\* A date string without a time part has no hour and no minute digits.
NoTime == 0 - 1
\* repeat.until when the rule has none.
NoUntil == 0 - 1

MathMax(a, b) == IF a = NaN \/ b = NaN THEN NaN ELSE IF a >= b THEN a ELSE b
MathMin(a, b) == IF a = NaN \/ b = NaN THEN NaN ELSE IF a <= b THEN a ELSE b
\* Math.round(n / d) for d > 0: the nearest integer, a half rounded up.
MathRound(n, d) == (2 * n + d) \div (2 * d)
MathCeilDiv(a, b) == 0 - ((0 - a) \div b)

\* ------------------------------------------------------ Date methods
getHours(ts) == IF ts = NaN THEN NaN ELSE (ts % dayMilliseconds) \div 3600000
getMinutes(ts) == IF ts = NaN THEN NaN ELSE ((ts % dayMilliseconds) \div 60000) % 60
\* date.setHours(h, m, s, ms): the same civil day at the given wall-clock time.
setHours(ts, h, m, s, ms) ==
  IF ts = NaN THEN NaN
  ELSE (ts \div dayMilliseconds) * dayMilliseconds + h * 3600000 + m * 60000 + s * 1000 + ms
\* date.setHours(h, m, s): the milliseconds of the date are kept.
setHours3(ts, h, m, s) == setHours(ts, h, m, s, IF ts = NaN THEN 0 ELSE ts % 1000)
\* getDay(): 0 is Sunday; civil day 0 is a Monday.
getDay(ts) == ((ts \div dayMilliseconds) + 1) % 7

addDays(ts, days) == IF ts = NaN THEN NaN ELSE ts + days * dayMilliseconds
subtractDays(ts, days) == IF ts = NaN THEN NaN ELSE ts - days * dayMilliseconds

\* `YYYY-MM-DD` of a date: its civil day (`NaN-NaN-NaN` of an Invalid Date).
formatDateLite(ts) == IF ts = NaN THEN NaN ELSE ts \div dayMilliseconds

\* formatTime(minutes, 'HH:mm'): the hour and minute digits.
formatTime(time) == [hh |-> time \div 60, mm |-> time % 60]

\* A `YYYY-MM-DD HH:mm` string, and a `YYYY-MM-DD` one.
DateTimeStr(d, hm) == [d |-> d, hh |-> hm.hh, mm |-> hm.mm]
DateStr(d) == [d |-> d, hh |-> NoTime, mm |-> NoTime]
\* str.substr(0, 10): the day part of a date string.  `NaN-NaN-NaN` has eleven
\* characters: its first ten are the key of no date.
NaNPrefix == NaN + 1
substr10(s) == IF s.d = NaN THEN NaNPrefix ELSE s.d
\* str.indexOf(':') === -1
hasNoColon(s) == s.hh = NoTime
\* a.start < b.start on strings: the lexicographic order of the padded digits;
\* a string that is a proper prefix of another sorts before it.
strLess(a, b) ==
  \/ a.d < b.d
  \/ a.d = b.d /\ a.hh < b.hh
  \/ a.d = b.d /\ a.hh = b.hh /\ a.mm < b.mm

\* stringToDate(str): `24:00` is the next midnight for an engine that accepts
\* it and an Invalid Date for the others; a later hour is an Invalid Date.
stringToDate(s, accepts24) ==
  IF s.d = NaN THEN NaN
  ELSE IF s.hh = NoTime THEN s.d * dayMilliseconds
  ELSE IF s.hh < 24 /\ s.mm < 60 THEN s.d * dayMilliseconds + s.hh * 3600000 + s.mm * 60000
  ELSE IF s.hh = 24 /\ s.mm = 0 /\ accepts24 THEN (s.d + 1) * dayMilliseconds
  ELSE NaN

\* countDays(start, end) on two dates of one time zone offset.
countDays(start, end) ==
  IF start = NaN \/ end = NaN THEN NaN
  ELSE LET s == setHours3(start, 0, 0, 0)
           e == setHours3(end, 0, 0, 1)
           timezoneDiffMs == 0
       IN MathCeilDiv(e - s - timezoneDiffMs, dayMilliseconds)

datesInSameTimeStep(date1, date2, timeStep) ==
  LET diff == date1 - date2
  IN (IF diff < 0 THEN 0 - diff ELSE diff) <= timeStep * 60 * 1000

\* ------------------------------------------------------- event model
NoSegments == [k \in {} |-> NaN]
NoOccurrences == [k \in {} |-> NaN]
\* repeat: null
NoRepeat == [every |-> "none", weekdays |-> {}, until |-> NoUntil]

isRepeat(e) == e.repeat.every # "none"

eventDefaults ==
  [_eid |-> NaN,
   start |-> DateStr(NaN), startDate |-> NaN, startTimeMinutes |-> 0,
   end |-> DateStr(NaN), endDate |-> NaN, endTimeMinutes |-> 0,
   background |-> FALSE, allDay |-> FALSE,
   hasSegments |-> FALSE, segments |-> NoSegments,
   repeat |-> NoRepeat, hasOccurrences |-> FALSE, occurrences |-> NoOccurrences,
   daysCount |-> 1, top |-> 0, height |-> 0]

Segment(startDate, formattedDate, startTimeMinutes, endTimeMinutes, isFirstDay, isLastDay) ==
  [startDate |-> startDate, start |-> formattedDate,
   startTimeMinutes |-> startTimeMinutes, endTimeMinutes |-> endTimeMinutes,
   isFirstDay |-> isFirstDay, isLastDay |-> isLastDay, height |-> 0, top |-> 0]

\* obj[key] = value
SetKey(obj, key, value) ==
  [k \in DOMAIN obj \cup {key} |-> IF k = key THEN value ELSE obj[k]]
\* delete obj[key]
DeleteKey(obj, key) == [k \in DOMAIN obj \ {key} |-> obj[k]]
\* Object.keys(obj).length
KeysLength(obj) == Cardinality(DOMAIN obj)

\* The candidate event of createAnEvent, before the eventOptions are merged.
NewEvent(dateTime, eid, withTime, accepts24) ==
  LET hours == getHours(dateTime)
      minutes == getMinutes(dateTime)
      startTimeMinutes == hours * 60 + minutes
      hoursEnd == hours + defaultEventDuration
      endTimeMinutes == startTimeMinutes + 120
      start == IF withTime THEN DateTimeStr(formatDateLite(dateTime), [hh |-> hours, mm |-> minutes])
               ELSE DateStr(formatDateLite(dateTime))
      end == IF withTime THEN DateTimeStr(formatDateLite(dateTime), [hh |-> hoursEnd, mm |-> minutes])
             ELSE DateStr(formatDateLite(dateTime))
  IN [eventDefaults EXCEPT
        !._eid = eid,
        !.start = start, !.startDate = dateTime, !.startTimeMinutes = startTimeMinutes,
        !.end = end, !.endDate = stringToDate(end, accepts24), !.endTimeMinutes = endTimeMinutes,
        !.hasSegments = FALSE, !.segments = NoSegments]

\* { ...event, ...eventOptions }: the keys of eventOptions win.
MergeOptions(event, eventOptions) ==
  [k \in DOMAIN event |-> IF k \in DOMAIN eventOptions THEN eventOptions[k] ELSE event[k]]

\* The multiple-day check of createAnEvent.
UpdateDaysCount(event) ==
  IF substr10(event.start) # substr10(event.end)
  THEN [event EXCEPT !.daysCount = countDays(event.startDate, event.endDate)]
  ELSE event

\* ------------------------------------------------ segmentation engine
\* addEventSegment that leaves the event as it was when no segment is keyed by
\* its end day.
addEventSegmentSkipping(e) ==
  LET segs0 == IF ~e.hasSegments
               THEN SetKey(NoSegments, substr10(e.start),
                           Segment(e.startDate, substr10(e.start), e.startTimeMinutes,
                                   minutesInADay, TRUE, FALSE))
               ELSE e.segments
      previousKey == formatDateLite(e.endDate)
      segs1 == IF previousKey \in DOMAIN segs0
               THEN [segs0 EXCEPT ![previousKey].isLastDay = FALSE,
                                  ![previousKey].endTimeMinutes = minutesInADay]
               ELSE segs0
      endDate == addDays(e.endDate, 1)
      formattedDate == formatDateLite(endDate)
      startDate == setHours(endDate, 0, 0, 0, 0)
      segs2 == SetKey(segs1, formattedDate,
                      Segment(startDate, formattedDate, 0, e.endTimeMinutes, FALSE, TRUE))
  IN IF previousKey \notin DOMAIN segs0 THEN e
     ELSE [e EXCEPT !.hasSegments = TRUE, !.segments = segs2,
                    !.daysCount = KeysLength(segs2),
                    !.endDate = endDate,
                    !.end = DateTimeStr(formattedDate, formatTime(e.endTimeMinutes))]

addEventSegment(e) ==
  LET segs0 == IF ~e.hasSegments
               THEN SetKey(NoSegments, substr10(e.start),
                           Segment(e.startDate, substr10(e.start), e.startTimeMinutes,
                                   minutesInADay, TRUE, FALSE))
               ELSE e.segments
      previousKey == formatDateLite(e.endDate)
      segs1 == IF previousKey \in DOMAIN segs0
               THEN [segs0 EXCEPT ![previousKey].isLastDay = FALSE,
                                  ![previousKey].endTimeMinutes = minutesInADay]
               ELSE segs0
      endDate == addDays(e.endDate, 1)
      formattedDate == formatDateLite(endDate)
      startDate == setHours(endDate, 0, 0, 0, 0)
      segs2 == SetKey(segs1, formattedDate,
                      Segment(startDate, formattedDate, 0, e.endTimeMinutes, FALSE, TRUE))
  IN [e EXCEPT !.hasSegments = TRUE, !.segments = segs2,
               !.daysCount = KeysLength(segs2),
               !.endDate = endDate,
               !.end = DateTimeStr(formattedDate, formatTime(e.endTimeMinutes))]

\* Object.keys(e.segments) throws a TypeError when e.segments is null.
removeEventSegmentThrows(e) == ~e.hasSegments

\* The call deletes a segment: there are several and one is keyed by the end day.
removeEventSegmentDeletes(e) ==
  e.hasSegments /\ KeysLength(e.segments) > 1 /\ substr10(e.end) \in DOMAIN e.segments

removeEventSegment(e) ==
  LET segmentsCount0 == KeysLength(e.segments)
      segs1 == DeleteKey(e.segments, substr10(e.end))
      segmentsCount == segmentsCount0 - 1
      endDate == subtractDays(e.endDate, 1)
      formattedDate == formatDateLite(endDate)
      segs2 == IF segmentsCount = 0 THEN NoSegments
               ELSE IF formattedDate \in DOMAIN segs1
               THEN [segs1 EXCEPT ![formattedDate].isLastDay = TRUE,
                                  ![formattedDate].endTimeMinutes = e.endTimeMinutes]
               ELSE segs1
  IN IF segmentsCount0 <= 1 THEN e
     ELSE [e EXCEPT !.hasSegments = segmentsCount # 0, !.segments = segs2,
                    !.daysCount = IF segmentsCount # 0 THEN segmentsCount ELSE 1,
                    !.endDate = endDate,
                    !.end = DateTimeStr(formattedDate, formatTime(e.endTimeMinutes))]

\* !date.getHours() && !date.getMinutes(): NaN is falsy too.
\* The test of an end at 00:00 that no end passes.
EndsAtMidnightNever(ts) == FALSE

EndsAtMidnight(ts) ==
  /\ getHours(ts) = 0 \/ getHours(ts) = NaN
  /\ getMinutes(ts) = 0 \/ getMinutes(ts) = NaN

\* One iteration of the while loop of createEventSegments and the rest of
\* the loop; st holds the loop's variables.
RECURSIVE createEventSegmentsLoop(_, _, _)
createEventSegmentsLoop(e, end, st) ==
  IF st.timestamp = NaN \/ end = NaN \/ ~(st.timestamp <= end) THEN st.segments
  ELSE
    LET timestamp == st.timestamp
        nextMidnight == setHours(addDays(timestamp, 1), 0, 0, 0, 0)
        tmpDateFormatted == formatDateLite(timestamp)
        known == e.hasOccurrences /\ tmpDateFormatted \in DOMAIN e.occurrences
        entered == isRepeat(e) /\ (st.repeatedEventStartFound \/ known)
        fresh == entered /\ ~st.repeatedEventStartFound
        eventStart == IF fresh THEN e.occurrences[tmpDateFormatted].start ELSE st.eventStart
        eventStartAtMidnight == IF fresh THEN setHours(eventStart, 0, 0, 0, 0)
                                ELSE st.eventStartAtMidnight
        eventEnd == IF fresh THEN e.occurrences[tmpDateFormatted].end ELSE st.eventEnd
        createSegment == IF isRepeat(e) THEN entered ELSE TRUE
        isFirstDay == IF isRepeat(e) THEN timestamp = eventStartAtMidnight
                      ELSE timestamp = eventStart
        isLastDay == IF isRepeat(e) THEN tmpDateFormatted = formatDateLite(eventEnd)
                     ELSE end = eventEnd /\ nextMidnight > end
        startDate == IF isRepeat(e) THEN (IF isFirstDay THEN eventStart ELSE timestamp)
                     ELSE (IF isFirstDay THEN e.startDate ELSE timestamp)
        formattedDate == IF isRepeat(e) THEN formatDateLite(startDate)
                         ELSE (IF isFirstDay THEN substr10(e.start) ELSE formatDateLite(startDate))
        found == IF isRepeat(e)
                 THEN (IF isLastDay THEN FALSE ELSE (entered \/ st.repeatedEventStartFound))
                 ELSE st.repeatedEventStartFound
        segments == IF createSegment
                    THEN SetKey(st.segments, formattedDate,
                                Segment(startDate, formattedDate,
                                        IF isFirstDay THEN e.startTimeMinutes ELSE 0,
                                        IF isLastDay THEN e.endTimeMinutes ELSE minutesInADay,
                                        isFirstDay, isLastDay))
                    ELSE st.segments
    IN createEventSegmentsLoop(e, end,
         [timestamp |-> nextMidnight, segments |-> segments,
          eventStart |-> eventStart, eventEnd |-> eventEnd,
          eventStartAtMidnight |-> eventStartAtMidnight,
          repeatedEventStartFound |-> found])

\* createEventSegments that starts at the view's start, not at the later of the
\* view's start and the event's start.
createEventSegmentsFromViewStart(e, viewStartDate, viewEndDate) ==
  LET eventEnd == IF e.endDate = NaN THEN NaN
                  ELSE IF EndsAtMidnight(e.endDate) THEN e.endDate - 1000 ELSE e.endDate
      end == IF ~isRepeat(e) THEN MathMin(viewEndDate, eventEnd)
             ELSE MathMin(viewEndDate,
                          IF e.repeat.until # NoUntil
                          THEN stringToDate(DateStr(e.repeat.until), FALSE)
                          ELSE viewEndDate)
  IN [e EXCEPT !.hasSegments = TRUE,
               !.segments = createEventSegmentsLoop(e, end,
                  [timestamp |-> viewStartDate, segments |-> NoSegments,
                   eventStart |-> e.startDate, eventEnd |-> eventEnd,
                   eventStartAtMidnight |-> NaN,
                   repeatedEventStartFound |-> FALSE])]

\* createEventSegments that starts the walk of a recurring event like that of a
\* plain one: at the later of the view's start and the event's start.
createEventSegmentsFromEventStart(e, viewStartDate, viewEndDate) ==
  LET eventEnd == IF e.endDate = NaN THEN NaN
                  ELSE IF EndsAtMidnight(e.endDate) THEN e.endDate - 1000 ELSE e.endDate
      end == IF ~isRepeat(e) THEN MathMin(viewEndDate, eventEnd)
             ELSE MathMin(viewEndDate,
                          IF e.repeat.until # NoUntil
                          THEN stringToDate(DateStr(e.repeat.until), FALSE)
                          ELSE viewEndDate)
  IN [e EXCEPT !.hasSegments = TRUE,
               !.segments = createEventSegmentsLoop(e, end,
                  [timestamp |-> MathMax(viewStartDate, e.startDate),
                   segments |-> NoSegments,
                   eventStart |-> e.startDate, eventEnd |-> eventEnd,
                   eventStartAtMidnight |-> NaN,
                   repeatedEventStartFound |-> FALSE])]

createEventSegments(e, viewStartDate, viewEndDate) ==
  LET viewStartTimestamp == viewStartDate
      viewEndTimestamp == viewEndDate
      eventStart == e.startDate
      eventEnd == IF e.endDate = NaN THEN NaN
                  ELSE IF EndsAtMidnight(e.endDate) THEN e.endDate - 1000 ELSE e.endDate
      timestamp == IF ~isRepeat(e) THEN MathMax(viewStartTimestamp, eventStart)
                   ELSE viewStartTimestamp
      end == IF ~isRepeat(e) THEN MathMin(viewEndTimestamp, eventEnd)
             ELSE MathMin(viewEndTimestamp,
                          IF e.repeat.until # NoUntil
                          THEN stringToDate(DateStr(e.repeat.until), FALSE)
                          ELSE viewEndTimestamp)
  IN [e EXCEPT !.hasSegments = TRUE,
               !.segments = createEventSegmentsLoop(e, end,
                  [timestamp |-> timestamp, segments |-> NoSegments,
                   eventStart |-> eventStart, eventEnd |-> eventEnd,
                   eventStartAtMidnight |-> NaN,
                   repeatedEventStartFound |-> FALSE])]

\* createEventSegments of event-utils.js: the next midnight is 24 hours later cut
\* to its day's midnight, the last day may end on the next midnight, and a
\* repeat rule is not looked at.
RECURSIVE createEventSegmentsLegacyLoop(_, _, _, _, _)
createEventSegmentsLegacyLoop(e, end, eventEnd, timestamp, segments) ==
  IF timestamp = NaN \/ end = NaN \/ ~(timestamp <= end) THEN segments
  ELSE
    LET nextMidnight == setHours3(timestamp + dayMilliseconds, 0, 0, 0)
        isFirstDay == timestamp = e.startDate
        isLastDay == end = eventEnd /\ nextMidnight >= end
        startDate == IF isFirstDay THEN e.startDate ELSE timestamp
        formattedDate == IF isFirstDay THEN substr10(e.start) ELSE formatDateLite(startDate)
    IN createEventSegmentsLegacyLoop(e, end, eventEnd, nextMidnight,
         SetKey(segments, formattedDate,
                Segment(startDate, formattedDate,
                        IF isFirstDay THEN e.startTimeMinutes ELSE 0,
                        IF isLastDay THEN e.endTimeMinutes ELSE 24 * 60,
                        isFirstDay, isLastDay)))

createEventSegmentsLegacy(e, viewStartDate, viewEndDate) ==
  LET eventStart == e.startDate
      eventEnd == IF e.endDate = NaN THEN NaN
                  ELSE IF EndsAtMidnight(e.endDate) THEN e.endDate - 1000 ELSE e.endDate
      timestamp == MathMax(viewStartDate, eventStart)
      end == MathMin(viewEndDate, eventEnd)
  IN [e EXCEPT !.hasSegments = TRUE,
               !.segments = createEventSegmentsLegacyLoop(e, end, eventEnd, timestamp,
                                                          NoSegments)]

\* -------------------------------------------------------- eventInRange
\* a < b and a <= b on numbers: false when one of them is NaN.
Lt(a, b) == a # NaN /\ b # NaN /\ a < b
Le(a, b) == a # NaN /\ b # NaN /\ a <= b

\* eventInRange that takes an event touching the range for one inside it.
eventInRangeClosed(event, start, end) ==
  IF event.allDay \/ hasNoColon(event.start)
  THEN LET eventStart == setHours(event.startDate, 0, 0, 0, 0)
       IN /\ Le(setHours(start, 0, 0, 0, 0), eventStart)
          /\ Le(eventStart, setHours(end, 0, 0, 0, 0))
  ELSE Le(event.startDate, end) /\ Le(start, event.endDate)

\* eventInRange(event, start, end) of part_000.
eventInRange(event, start, end) ==
  IF event.allDay \/ hasNoColon(event.start)
  THEN LET eventStart == setHours(event.startDate, 0, 0, 0, 0)
       IN /\ Le(setHours(start, 0, 0, 0, 0), eventStart)
          /\ Le(eventStart, setHours(end, 0, 0, 0, 0))
  ELSE Lt(event.startDate, end) /\ Lt(start, event.endDate)

\* getDate() and getMonth(): the civil days of the model are in one month.
getDate(ts) == formatDateLite(ts) + 1
getMonth(ts) == 0

\* The while loop of recurringEventInRange: `undefined` when no day matches.
RECURSIVE recurringEventInRangeLoop(_, _, _)
recurringEventInRangeLoop(event, tmpDate, endTimestamp) ==
  IF ~Lt(tmpDate, endTimestamp) THEN "undefined"
  ELSE LET repeatWeekdays == (IF getDay(tmpDate) = 0 THEN 7 ELSE getDay(tmpDate))
                               \in event.repeat.weekdays
           repeatMonth == /\ event.repeat.every = "month"
                          /\ getDate(event.startDate) = getDate(tmpDate)
           repeatYear == /\ event.repeat.every = "year"
                         /\ getDate(event.startDate) = getDate(tmpDate)
                         /\ getMonth(event.startDate) = getMonth(tmpDate)
       IN IF repeatWeekdays \/ repeatMonth \/ repeatYear THEN "true"
          ELSE recurringEventInRangeLoop(event, addDays(tmpDate, 1), endTimestamp)

\* recurringEventInRange(event, start, end) of event-utils.js: "true", "false"
\* or "undefined".
recurringEventInRange(event, start, end) ==
  IF Le(end, event.startDate) THEN "false"
  ELSE recurringEventInRangeLoop(event, start,
         IF event.repeat.until # NoUntil
         THEN MathMin(end, event.repeat.until * dayMilliseconds)
         ELSE end)

\* eventInRange(event, start, end) of event-utils.js: "true", "false", or
\* "undefined" for undefined and for the null of event.repeat.
eventInRangeLegacy(event, start, end) ==
  IF event.allDay \/ hasNoColon(event.start)
  THEN LET eventStartMidnight == setHours(event.startDate, 0, 0, 0, 0)
           startMidnight == setHours(start, 0, 0, 0, 0)
           endMidnight == setHours(end, 23, 59, 59, 999)
           inRange == Le(startMidnight, eventStartMidnight) /\ Le(eventStartMidnight, endMidnight)
       IN IF inRange THEN "true"
          ELSE IF ~isRepeat(event) THEN "undefined"
          ELSE recurringEventInRange(event, startMidnight, endMidnight)
  ELSE IF isRepeat(event) THEN recurringEventInRange(event, start, end)
  ELSE IF Lt(event.startDate, end) /\ Lt(start, event.endDate) THEN "true" ELSE "false"

\* ------------------------------------------------------------ overlaps
NoOverlaps == [k \in {} |-> NaN]
\* array.includes(x); array.indexOf(x), counted from 1, 0 when x is absent
Includes(array, x) == \E i \in DOMAIN array : array[i] = x
IndexOf(array, x) ==
  IF Includes(array, x)
  THEN CHOOSE i \in DOMAIN array : array[i] = x /\ \A j \in 1..(i - 1) : array[j] # x
  ELSE 0
\* array.splice(i, 1)
Splice(array, i) == SubSeq(array, 1, i - 1) \o SubSeq(array, i + 1, Len(array))
\* [...new Set(array)]
RECURSIVE Dedupe(_)
Dedupe(array) ==
  IF array = <<>> THEN <<>>
  ELSE LET front == Dedupe(SubSeq(array, 1, Len(array) - 1))
           x == array[Len(array)]
       IN IF Includes(front, x) THEN front ELSE Append(front, x)

\* if (!cellOverlaps[e._eid]) Vue.set(cellOverlaps, e._eid, {...})
EnsureOverlaps(cellOverlaps, e) ==
  IF e._eid \in DOMAIN cellOverlaps THEN cellOverlaps
  ELSE SetKey(cellOverlaps, e._eid, [overlaps |-> <<>>, start |-> e.start, position |-> 0])

\* The callback of comparisonArray.forEach that records e2 in the overlaps of
\* e only.
compareEventsOneSided(cellOverlaps, e, e2, eventIsInRange, opts) ==
  LET t == EnsureOverlaps(cellOverlaps, e2)
      eventsInSameTimeStep ==
        IF opts.overlapsPerTimeStep
        THEN datesInSameTimeStep(e.startDate, e2.startDate, opts.timeStep) ELSE TRUE
  IN IF /\ ~e.background /\ ~e.allDay /\ ~e2.background /\ ~e2.allDay
        /\ eventIsInRange /\ eventsInSameTimeStep
     THEN [t EXCEPT ![e._eid].overlaps = Dedupe(Append(@, e2._eid)),
                    ![e2._eid].position = @ + 1]
     ELSE [t EXCEPT ![e2._eid].position = @ - 1]

\* The callback of comparisonArray.forEach that does not look at the background
\* and allDay flags of the later event.
compareEventsAnyLater(cellOverlaps, e, e2, eventIsInRange, opts) ==
  LET t == EnsureOverlaps(cellOverlaps, e2)
      eventsInSameTimeStep ==
        IF opts.overlapsPerTimeStep
        THEN datesInSameTimeStep(e.startDate, e2.startDate, opts.timeStep) ELSE TRUE
  IN IF ~e.background /\ ~e.allDay /\ eventIsInRange /\ eventsInSameTimeStep
     THEN LET t1 == [t EXCEPT ![e._eid].overlaps = Dedupe(Append(@, e2._eid))]
          IN [t1 EXCEPT ![e2._eid].overlaps = Dedupe(Append(@, e._eid)),
                        ![e2._eid].position = @ + 1]
     ELSE [t EXCEPT ![e2._eid].position = @ - 1]

\* The callback of comparisonArray.forEach: e against a later event e2.
compareEvents(cellOverlaps, e, e2, eventIsInRange, opts) ==
  LET t == EnsureOverlaps(cellOverlaps, e2)
      eventsInSameTimeStep ==
        IF opts.overlapsPerTimeStep
        THEN datesInSameTimeStep(e.startDate, e2.startDate, opts.timeStep) ELSE TRUE
  IN IF /\ ~e.background /\ ~e.allDay /\ ~e2.background /\ ~e2.allDay
        /\ eventIsInRange /\ eventsInSameTimeStep
     THEN LET t1 == [t EXCEPT ![e._eid].overlaps = Dedupe(Append(@, e2._eid))]
          IN [t1 EXCEPT ![e2._eid].overlaps = Dedupe(Append(@, e._eid)),
                        ![e2._eid].position = @ + 1]
     ELSE LET pos1 == IndexOf(t[e._eid].overlaps, e2._eid)
              t1 == IF pos1 > 0 THEN [t EXCEPT ![e._eid].overlaps = Splice(@, pos1)] ELSE t
              pos2 == IndexOf(t1[e2._eid].overlaps, e._eid)
              t2 == IF pos2 > 0 THEN [t1 EXCEPT ![e2._eid].overlaps = Splice(@, pos2)] ELSE t1
          IN [t2 EXCEPT ![e2._eid].position = @ - 1]

\* eventInRange as the importing file binds it: part_000's, or event-utils.js's
\* (legacy), whose result is taken for its truth value.
eventIsInRangeOf(legacy, e2, start, end) ==
  IF legacy THEN eventInRangeLegacy(e2, start, end) = "true"
  ELSE eventInRange(e2, start, end)

\* comparisonArray.forEach(e2 => ...) for the event at index i, from index j on.
\* The callback has returned before forEach calls it again: the table it leaves,
\* compared, is computed (it always holds the entry of e) before the next call.
RECURSIVE comparisonArrayForEach(_, _, _, _, _, _)
comparisonArrayForEach(cellOverlaps, cellEvts, i, j, opts, legacy) ==
  IF j > Len(cellEvts) THEN cellOverlaps
  ELSE LET e == cellEvts[i]
           e2 == cellEvts[j]
           compared == compareEvents(cellOverlaps, e, e2,
                         eventIsInRangeOf(legacy, e2, e.startDate, e.endDate), opts)
       IN IF e._eid \in DOMAIN compared
          THEN comparisonArrayForEach(compared, cellEvts, i, j + 1, opts, legacy)
          ELSE compared

\* cellEvents.forEach(e => ...) from index i on. As above, the inner forEach has
\* returned, leaving the table compared, before the callback runs for the next e.
RECURSIVE cellEventsForEach(_, _, _, _, _)
cellEventsForEach(cellOverlaps, cellEvts, i, opts, legacy) ==
  IF i > Len(cellEvts) THEN cellOverlaps
  ELSE LET t == [EnsureOverlaps(cellOverlaps, cellEvts[i])
                   EXCEPT ![cellEvts[i]._eid].position = 0]
           compared == comparisonArrayForEach(t, cellEvts, i, i + 1, opts, legacy)
       IN IF cellEvts[i]._eid \in DOMAIN compared
          THEN cellEventsForEach(compared, cellEvts, i + 1, opts, legacy)
          ELSE compared

\* getOverlapsStreak that removes nothing from the streak.
getOverlapsStreakAll(event, cellOverlaps) == Len(event.overlaps) + 1

\* getOverlapsStreak that counts the overlaps without the event itself.
getOverlapsStreakWithoutSelf(event, cellOverlaps) ==
  LET RemoveFrom[n \in 0..Len(event.overlaps)] ==
        IF n = 0 THEN {}
        ELSE LET id == event.overlaps[n]
                 before == RemoveFrom[n - 1]
             IN IF id \in before THEN before
                ELSE before \cup
                     {event.overlaps[k] : k \in
                        {k \in DOMAIN event.overlaps :
                           /\ event.overlaps[k] # id
                           /\ ~Includes(cellOverlaps[event.overlaps[k]].overlaps, id)}}
  IN Len(event.overlaps) - Cardinality(RemoveFrom[Len(event.overlaps)])

\* getOverlapsStreak(event, cellOverlaps); RemoveFrom[n] is removeFromStreak
\* after the first n overlaps.
getOverlapsStreak(event, cellOverlaps) ==
  LET RemoveFrom[n \in 0..Len(event.overlaps)] ==
        IF n = 0 THEN {}
        ELSE LET id == event.overlaps[n]
                 before == RemoveFrom[n - 1]
             IN IF id \in before THEN before
                ELSE before \cup
                     {event.overlaps[k] : k \in
                        {k \in DOMAIN event.overlaps :
                           /\ event.overlaps[k] # id
                           /\ ~Includes(cellOverlaps[event.overlaps[k]].overlaps, id)}}
  IN Len(event.overlaps) + 1 - Cardinality(RemoveFrom[Len(event.overlaps)])

\* The comparator with the smaller id first among equal starts.
sortsBeforeIdAscending(a, b) ==
  \/ strLess(a.start, b.start)
  \/ ~strLess(b.start, a.start) /\ a.id < b.id

\* The comparator of overlapsRow.sort: a sorts before b.
sortsBefore(a, b) ==
  \/ strLess(a.start, b.start)
  \/ ~strLess(b.start, a.start) /\ a.id > b.id

\* item.position: the index of id in the sorted overlapsRow.
positionOf(id, cellOverlaps) ==
  LET item == cellOverlaps[id]
      overlapsRow == [k \in DOMAIN item.overlaps |->
                        [id |-> item.overlaps[k],
                         start |-> cellOverlaps[item.overlaps[k]].start]]
  IN Cardinality({k \in DOMAIN overlapsRow :
                    sortsBefore(overlapsRow[k], [id |-> id, start |-> item.start])})

\* Math.max of the streaks of the records
RECURSIVE longestStreakOf(_, _)
longestStreakOf(ids, cellOverlaps) ==
  IF ids = {} THEN 0
  ELSE LET id == CHOOSE x \in ids : TRUE
       IN MathMax(getOverlapsStreak(cellOverlaps[id], cellOverlaps),
                  longestStreakOf(ids \ {id}, cellOverlaps))

\* The table of checkCellOverlappingEvents with the positions set, and its
\* second result.
CellOverlapsOf(cellEvts, opts, legacy) ==
  LET t == cellEventsForEach(NoOverlaps, cellEvts, 1, opts, legacy)
  IN [id \in DOMAIN t |-> [t[id] EXCEPT !.position = positionOf(id, t)]]

\* checkCellOverlappingEvents(cellEvents, options) of part_000 and of
\* event-utils.js: [cellOverlaps, longestStreak].
checkCellOverlappingEvents(cellEvts, opts) ==
  LET t == CellOverlapsOf(cellEvts, opts, FALSE)
  IN <<t, longestStreakOf(DOMAIN t, t)>>
checkCellOverlappingEventsLegacy(cellEvts, opts) ==
  LET t == CellOverlapsOf(cellEvts, opts, TRUE)
  IN <<t, longestStreakOf(DOMAIN t, t)>>

\* ------------------------------------------------------------- state
VARIABLES
  events,            \* the event objects, by _eid
  mutableEvents,     \* vuecal.mutableEvents: the _eids, in order
  viewEvents,        \* vuecal.view.events: the _eids, in order
  eventIdIncrement,  \* vuecal.eventIdIncrement
  view,              \* vuecal.view.startDate and endDate
  time,              \* vuecal.time
  emitted,           \* the signals of the last call, in order
  last,              \* the last call: its operation, its event, the event before it
  cellEvents,        \* the events of one cell, the argument of checkCellOverlappingEvents
  options,           \* its options: overlapsPerTimeStep and timeStep
  cellOverlaps,      \* the module's cellOverlaps: the table of the last call
  longestStreak,     \* the second result of the last call
  geometry,          \* vuecal.timeFrom, timeTo, timeCellHeight and timeStep
  positioned,        \* the event of the last updateEventPosition call
  clock,             \* the wall clock: the civil date that new Date() yields
  now,               \* now of date-utils.js
  todayDate,         \* todayDate of date-utils.js
  todayF,            \* todayF of date-utils.js
  isTodayCall,       \* the last isToday call: its date and its result
  dayHours,          \* the time zone: the hours of each civil day
  legacyLoop,        \* whether the loop is that of event-utils.js
  loopStart,         \* timestamp when the while loop of createEventSegments began
  loopEnd,           \* end of that loop
  loopTimestamp,     \* timestamp of that loop
  loopSegments,      \* the civil days for which the loop wrote a segment
  loopIterations,    \* the iterations the loop has run
  looping            \* whether the loop has not yet been left

cellVars == <<cellEvents, options, cellOverlaps, longestStreak>>
eventVars == <<events, mutableEvents, viewEvents, eventIdIncrement, view, time, emitted>>
geometryVars == <<geometry, positioned>>
todayVars == <<clock, now, todayDate, todayF, isTodayCall>>
loopVars ==
  <<dayHours, legacyLoop, loopStart, loopEnd, loopTimestamp, loopSegments, loopIterations,
    looping>>
restVars == <<geometryVars, todayVars, loopVars>>
vars == <<eventVars, last, cellVars, restVars>>

\* A civil date: getFullYear(), getMonth() and getDate() of a Date.
CivilDate(y, m, d) == [year |-> y, month |-> m, date |-> d]
\* `let now, todayDate, todayF`: undefined until the first todayFormatted call.
UndefinedDate == CivilDate(NaN, NaN, NaN)
InitTodayCache ==
  /\ now = UndefinedDate
  /\ todayDate = NaN
  /\ todayF = UndefinedDate
  /\ isTodayCall = [date |-> UndefinedDate, result |-> FALSE]

\* No createEventSegments loop under way, in a time zone without shifts.
InitNoLoop ==
  /\ dayHours = [d \in 0..(MaxLoopDays + 1) |-> 24]
  /\ legacyLoop = FALSE
  /\ loopStart = 0
  /\ loopEnd = 0
  /\ loopTimestamp = 0
  /\ loopSegments = {}
  /\ loopIterations = 0
  /\ looping = FALSE

\* The variables of the other operations before any of them ran.
InitRest ==
  /\ geometry = [timeFrom |-> 0, timeTo |-> minutesInADay, timeCellHeight |-> 40, timeStep |-> 30]
  /\ positioned = eventDefaults
  /\ InitTodayCache
  /\ clock = CivilDate(FirstYear, 0, 1)
  /\ InitNoLoop

\* ------------------------------------------------------------ inputs
EndOfDay(d) == d * dayMilliseconds + 23 * 3600000 + 59 * 60000 + 59 * 1000
At(d, minutes) == d * dayMilliseconds + minutes * 60000

StartDays == {0, 1}
StartMinutes == {0, 18 * 60, 22 * 60}
EndDayOffsets == {0, 1, 2}
EndMinutes == {0, 2 * 60, 18 * 60}

\* The view windows of buildSegments: whole days, and one that is not.
ViewWindows ==
  {[startDate |-> At(0, 0), endDate |-> EndOfDay(6)],
   [startDate |-> At(0, 0), endDate |-> EndOfDay(1)],
   [startDate |-> At(1, 0), endDate |-> EndOfDay(1)],
   [startDate |-> At(1, 0), endDate |-> EndOfDay(3)],
   [startDate |-> At(1, 12 * 60), endDate |-> At(3, 12 * 60)]}

\* The view of the calendar: the week of civil days 0 to 6.
Views == {[startDate |-> At(0, 0), endDate |-> EndOfDay(6)]}

\* The occurrences of a weekly rule, one per matching civil day from the
\* event's first day to repeat.until, each as long as the event itself.
WeeklyOccurrences(startDate, endDate, weekdays, until) ==
  LET days == {d \in 0..MaxDay :
                 /\ d >= formatDateLite(startDate)
                 /\ until = NoUntil \/ d <= until
                 /\ (IF getDay(At(d, 0)) = 0 THEN 7 ELSE getDay(At(d, 0))) \in weekdays}
  IN [d \in days |->
        [start |-> startDate + (d - formatDateLite(startDate)) * dayMilliseconds,
         end |-> endDate + (d - formatDateLite(startDate)) * dayMilliseconds]]

\* eventOptions that move the end of the event: end, endDate, endTimeMinutes.
EndOptions(dateTime) ==
  {[end |-> IF time THEN DateTimeStr(d, formatTime(m)) ELSE DateStr(d),
    endDate |-> At(d, m), endTimeMinutes |-> m] :
     d \in {formatDateLite(dateTime) + o : o \in EndDayOffsets}, m \in EndMinutes}

\* eventOptions of a weekly event on Monday and Wednesday, with its occurrences
\* and without them.
WeeklyRule == [every |-> "week", weekdays |-> {1, 3}, until |-> NoUntil]
RepeatOptions(dateTime, endDate) ==
  [repeat |-> WeeklyRule,
   hasOccurrences |-> TRUE,
   occurrences |-> WeeklyOccurrences(dateTime, endDate, {1, 3}, NoUntil)]

Merge(a, b) == [k \in DOMAIN a \cup DOMAIN b |-> IF k \in DOMAIN b THEN b[k] ELSE a[k]]
NoOptions == [k \in {} |-> NaN]

EventOptions(dateTime) ==
  LET ends == {o \in EndOptions(dateTime) : o.endDate >= dateTime}
  IN {NoOptions} \cup ends \cup
     {Merge(o, RepeatOptions(dateTime, o.endDate)) : o \in ends} \cup
     {Merge(o, [repeat |-> WeeklyRule]) : o \in ends} \cup
     {Merge(o, [allDay |-> TRUE]) : o \in ends}

HookResults == {"absent", "true", "false", "deleteThenTrue", "deleteThenFalse"}

\* ------------------------------------------------------------- Init
\* op: the operation; threw: it raised an error; removed: removeDaySegment deleted
\* a segment; pre: the event before an addDaySegment or removeDaySegment call;
\* pre2: the event before the addDaySegment call that a removeDaySegment follows;
\* window: the view window of a buildSegments call; mutableAfterHook and
\* viewAfterHook: the two collections when the creation hook returned.
NoWindow == [startDate |-> NaN, endDate |-> NaN]
Call(op, eid) == [op |-> op, eid |-> eid, threw |-> FALSE, removed |-> FALSE,
                  pre |-> eventDefaults, pre2 |-> eventDefaults, window |-> NoWindow,
                  mutableAfterHook |-> <<>>, viewAfterHook |-> <<>>]
NoCall == Call("init", NaN)

Init ==
  /\ events = [k \in {} |-> eventDefaults]
  /\ mutableEvents = <<>>
  /\ viewEvents = <<>>
  /\ eventIdIncrement = 0
  /\ view \in Views
  /\ time \in BOOLEAN
  /\ emitted = <<>>
  /\ last = NoCall
  /\ cellEvents = <<>>
  /\ options = [overlapsPerTimeStep |-> FALSE, timeStep |-> 30]
  /\ cellOverlaps = NoOverlaps
  /\ longestStreak = 0
  /\ InitRest

\* ---------------------------------------------------------- actions
\* list.filter(e => e._eid !== eid)
FilterOut(list, eid) == SelectSeq(list, LAMBDA x : x # eid)

\* vuecal.addEventsToView([event]): a multiple-day or recurring event gets its
\* segments for the current view.
addEventsToView(event) ==
  IF (event.daysCount # NaN /\ event.daysCount > 1) \/ isRepeat(event)
  THEN createEventSegments(event, view.startDate, view.endDate)
  ELSE event

\* createAnEvent that puts the event into the two collections before it asks
\* the hook.
createAnEventPushFirst(dateTime, eventOptions, hook, accepts24) ==
  LET eid == eventIdIncrement
      event == MergeOptions(NewEvent(dateTime, eid, time, accepts24), eventOptions)
      deleted == hook \in {"deleteThenTrue", "deleteThenFalse"}
      vetoed == hook \in {"false", "deleteThenFalse"}
      mutable0 == Append(mutableEvents, eid)
      view0 == Append(viewEvents, eid)
      mutable1 == IF deleted THEN FilterOut(mutable0, eid) ELSE mutable0
      view1 == IF deleted THEN FilterOut(view0, eid) ELSE view0
      emitted1 == IF deleted THEN <<[signal |-> "event-delete", eid |-> eid]>> ELSE <<>>
  IN /\ eventIdIncrement' = eventIdIncrement + 1
     /\ mutableEvents' = mutable1
     /\ viewEvents' = view1
     /\ IF vetoed
        THEN /\ events' = events
             /\ emitted' = emitted1
             /\ last' = [Call("veto", eid) EXCEPT !.mutableAfterHook = mutable1,
                                                   !.viewAfterHook = view1]
        ELSE /\ events' = SetKey(events, eid, addEventsToView(UpdateDaysCount(event)))
             /\ emitted' = emitted1 \o <<[signal |-> "event-create", eid |-> eid],
                                        [signal |-> "event-change", eid |-> eid]>>
             /\ last' = [Call("create", eid) EXCEPT !.mutableAfterHook = mutable1,
                                                     !.viewAfterHook = view1]
     /\ UNCHANGED <<view, time, cellVars, restVars>>

\* accepts24: whether the engine's Date parser takes `24:00` for the next midnight.
createAnEvent(dateTime, eventOptions, hook, accepts24) ==
  LET eid == eventIdIncrement
      event == MergeOptions(NewEvent(dateTime, eid, time, accepts24), eventOptions)
      deleted == hook \in {"deleteThenTrue", "deleteThenFalse"}
      vetoed == hook \in {"false", "deleteThenFalse"}
      mutable1 == IF deleted THEN FilterOut(mutableEvents, eid) ELSE mutableEvents
      view1 == IF deleted THEN FilterOut(viewEvents, eid) ELSE viewEvents
      emitted1 == IF deleted THEN <<[signal |-> "event-delete", eid |-> eid]>> ELSE <<>>
      inserted == addEventsToView(UpdateDaysCount(event))
  IN /\ eventIdIncrement' = eventIdIncrement + 1
     /\ IF vetoed
        THEN /\ events' = events
             /\ mutableEvents' = mutable1
             /\ viewEvents' = view1
             /\ emitted' = emitted1
             /\ last' = [Call("veto", eid) EXCEPT !.mutableAfterHook = mutable1,
                                                   !.viewAfterHook = view1]
        ELSE /\ events' = SetKey(events, eid, inserted)
             /\ mutableEvents' = Append(mutable1, eid)
             /\ viewEvents' = Append(view1, eid)
             /\ emitted' = emitted1 \o <<[signal |-> "event-create", eid |-> eid],
                                        [signal |-> "event-change", eid |-> eid]>>
             /\ last' = [Call("create", eid) EXCEPT !.mutableAfterHook = mutable1,
                                                     !.viewAfterHook = view1]
     /\ UNCHANGED <<view, time, cellVars, restVars>>

CreateEvent ==
  /\ eventIdIncrement < MaxIds
  /\ Len(mutableEvents) < MaxEvents
  /\ \E d \in StartDays, m \in StartMinutes, hook \in HookResults, accepts24 \in BOOLEAN :
       \E eventOptions \in EventOptions(At(d, m)) :
         createAnEvent(At(d, m), eventOptions, hook, accepts24)

buildSegments(eid, w) ==
    /\ events' = [events EXCEPT ![eid] = createEventSegments(@, w.startDate, w.endDate)]
    /\ emitted' = <<>>
    /\ last' = [Call("build", eid) EXCEPT !.window = w]
    /\ UNCHANGED <<mutableEvents, viewEvents, eventIdIncrement, view, time, cellVars, restVars>>

BuildSegments == \E eid \in DOMAIN events, w \in ViewWindows : buildSegments(eid, w)

\* addDaySegment that leaves daysCount as it was.
AddDaySegmentStaleCount ==
  \E eid \in DOMAIN events :
    /\ events[eid].endDate = NaN \/ formatDateLite(events[eid].endDate) < MaxEndDay
    /\ events' = [events EXCEPT ![eid] = [addEventSegment(@) EXCEPT !.daysCount = events[eid].daysCount]]
    /\ emitted' = <<>>
    /\ last' = [Call("add", eid) EXCEPT !.pre = events[eid]]
    /\ UNCHANGED <<mutableEvents, viewEvents, eventIdIncrement, view, time, cellVars, restVars>>

AddDaySegment ==
  \E eid \in DOMAIN events :
    /\ events[eid].endDate = NaN \/ formatDateLite(events[eid].endDate) < MaxEndDay
    /\ events' = [events EXCEPT ![eid] = addEventSegment(@)]
    /\ emitted' = <<>>
    /\ last' = [Call("add", eid) EXCEPT !.pre = events[eid]]
    /\ UNCHANGED <<mutableEvents, viewEvents, eventIdIncrement, view, time, cellVars, restVars>>

\* removeDaySegment that leaves endDate as it was.
RemoveDaySegmentStaleEndDate ==
  \E eid \in DOMAIN events :
    /\ events[eid].endDate = NaN \/ formatDateLite(events[eid].endDate) > 0
    /\ IF removeEventSegmentThrows(events[eid])
       THEN /\ events' = events
            /\ last' = [Call("remove", eid) EXCEPT !.threw = TRUE]
       ELSE /\ events' = [events EXCEPT ![eid] =
                            [removeEventSegment(@) EXCEPT !.endDate = events[eid].endDate]]
            /\ last' = [Call(IF last.op = "add" /\ last.eid = eid
                             THEN "addThenRemove" ELSE "remove", eid)
                          EXCEPT !.removed = removeEventSegmentDeletes(events[eid]),
                                 !.pre = events[eid],
                                 !.pre2 = IF last.op = "add" /\ last.eid = eid
                                          THEN last.pre ELSE eventDefaults]
    /\ emitted' = <<>>
    /\ UNCHANGED <<mutableEvents, viewEvents, eventIdIncrement, view, time, cellVars, restVars>>

RemoveDaySegment ==
  \E eid \in DOMAIN events :
    /\ events[eid].endDate = NaN \/ formatDateLite(events[eid].endDate) > 0
    /\ IF removeEventSegmentThrows(events[eid])
       THEN /\ events' = events
            /\ last' = [Call("remove", eid) EXCEPT !.threw = TRUE]
       ELSE /\ events' = [events EXCEPT ![eid] = removeEventSegment(@)]
            /\ last' = [Call(IF last.op = "add" /\ last.eid = eid
                             THEN "addThenRemove" ELSE "remove", eid)
                          EXCEPT !.removed = removeEventSegmentDeletes(events[eid]),
                                 !.pre = events[eid],
                                 !.pre2 = IF last.op = "add" /\ last.eid = eid
                                          THEN last.pre ELSE eventDefaults]
    /\ emitted' = <<>>
    /\ UNCHANGED <<mutableEvents, viewEvents, eventIdIncrement, view, time, cellVars, restVars>>

Next ==
  \/ CreateEvent
  \/ BuildSegments
  \/ AddDaySegment
  \/ RemoveDaySegment

Spec == Init /\ [][Next]_vars

\* ------------------------------------------- the overlaps of one cell
\* The events of a cell, all of civil day 0: timed ones that intersect, that
\* touch (09:00-10:00 and 10:00-11:00) and that are chained, a background one,
\* an all-day one, a time-less one and a weekly one.
CellShapes ==
  {[from |-> 9 * 60, to |-> 10 * 60, kind |-> "timed"],
   [from |-> 9 * 60 + 30, to |-> 10 * 60 + 30, kind |-> "timed"],
   [from |-> 9 * 60 + 45, to |-> 10 * 60 + 15, kind |-> "timed"],
   [from |-> 10 * 60, to |-> 11 * 60, kind |-> "timed"],
   [from |-> 9 * 60, to |-> 10 * 60, kind |-> "background"],
   [from |-> 9 * 60 + 30, to |-> 10 * 60 + 30, kind |-> "allDay"],
   [from |-> 0, to |-> 0, kind |-> "timeless"],
   [from |-> 9 * 60 + 45, to |-> 10 * 60 + 15, kind |-> "weekly"]}

CellEvent(eid, shape) ==
  [eventDefaults EXCEPT
     !._eid = eid,
     !.start = IF shape.kind = "timeless" THEN DateStr(0)
               ELSE DateTimeStr(0, formatTime(shape.from)),
     !.startDate = At(0, shape.from),
     !.startTimeMinutes = shape.from,
     !.end = IF shape.kind = "timeless" THEN DateStr(0)
             ELSE DateTimeStr(0, formatTime(shape.to)),
     !.endDate = At(0, shape.to),
     !.endTimeMinutes = shape.to,
     !.background = shape.kind = "background",
     !.allDay = shape.kind = "allDay",
     !.repeat = IF shape.kind = "weekly"
                THEN [every |-> "week", weekdays |-> {1, 3}, until |-> NoUntil]
                ELSE NoRepeat]

\* The orders of n distinct _eids along a list.
EidOrders(n) == {f \in [1..n -> 0..(n - 1)] : \A i, j \in 1..n : f[i] = f[j] => i = j}

OverlapOptions ==
  {[overlapsPerTimeStep |-> FALSE, timeStep |-> 30],
   [overlapsPerTimeStep |-> TRUE, timeStep |-> 15]}

InitOverlaps ==
  /\ events = [k \in {} |-> eventDefaults]
  /\ mutableEvents = <<>>
  /\ viewEvents = <<>>
  /\ eventIdIncrement = 0
  /\ view \in Views
  /\ time = TRUE
  /\ emitted = <<>>
  /\ last = NoCall
  /\ \E n \in 0..MaxCellEvents :
       \E shapes \in [1..n -> CellShapes], ids \in EidOrders(n) :
         cellEvents = [i \in 1..n |-> CellEvent(ids[i], shapes[i])]
  /\ options \in OverlapOptions
  /\ cellOverlaps = NoOverlaps
  /\ longestStreak = 0
  /\ InitRest

\* A cell computes its overlaps: checkCellOverlappingEvents(cellEvents, options),
\* called once; the pair it returns is destructured into the cell's two fields.
ComputeOverlaps ==
  /\ last.op # "overlaps"
  /\ \E result \in {checkCellOverlappingEvents(cellEvents, options)} :
       /\ cellOverlaps' = result[1]
       /\ longestStreak' = result[2]
  /\ last' = Call("overlaps", NaN)
  /\ UNCHANGED <<eventVars, cellEvents, options, restVars>>

NextOverlaps == ComputeOverlaps

SpecOverlaps == InitOverlaps /\ [][NextOverlaps]_vars

\* ------------------------------------------------- longer lists of timed events
\* Timed events of one day, between 9:00 and 12:00.
StreakShapes ==
  {[from |-> 9 * 60, to |-> 11 * 60 + 30, kind |-> "timed"],
   [from |-> 10 * 60, to |-> 11 * 60 + 30, kind |-> "timed"],
   [from |-> 10 * 60 + 30, to |-> 11 * 60, kind |-> "timed"],
   [from |-> 11 * 60, to |-> 12 * 60, kind |-> "timed"],
   [from |-> 11 * 60 + 30, to |-> 12 * 60, kind |-> "timed"]}

InitStreak ==
  /\ events = [k \in {} |-> eventDefaults]
  /\ mutableEvents = <<>>
  /\ viewEvents = <<>>
  /\ eventIdIncrement = 0
  /\ view \in Views
  /\ time = TRUE
  /\ emitted = <<>>
  /\ last = NoCall
  /\ \E n \in 0..MaxStreakEvents :
       \E shapes \in [1..n -> StreakShapes] :
         cellEvents = [i \in 1..n |-> CellEvent(i, shapes[i])]
  /\ options = [overlapsPerTimeStep |-> FALSE, timeStep |-> 30]
  /\ cellOverlaps = NoOverlaps
  /\ longestStreak = 0
  /\ InitRest

SpecStreak == InitStreak /\ [][NextOverlaps]_vars

\* --------------------------------------------- the position of an event
\* updateEventPosition(event, vuecal) of part_000.
updateEventPosition(event, vuecal) ==
  LET top == MathRound((event.startTimeMinutes - vuecal.timeFrom) * vuecal.timeCellHeight,
                       vuecal.timeStep)
      bottom == MathRound((MathMin(event.endTimeMinutes, vuecal.timeTo) - vuecal.timeFrom)
                            * vuecal.timeCellHeight, vuecal.timeStep)
      eventTop == MathMax(top, 0)
  IN [event EXCEPT !.top = eventTop, !.height = MathMax(bottom - eventTop, 5)]

\* updateEventPosition(event, vuecal) of event-utils.js.
updateEventPositionLegacy(event, vuecal) ==
  LET top == MathRound((event.startTimeMinutes - vuecal.timeFrom) * vuecal.timeCellHeight,
                       vuecal.timeStep)
      bottom == MathRound((MathMin(event.endTimeMinutes, vuecal.timeTo) - vuecal.timeFrom)
                            * vuecal.timeCellHeight, vuecal.timeStep)
      eventTop == MathMax(top, 0)
  IN [event EXCEPT !.top = eventTop, !.height = bottom - eventTop]

\* The view settings: a full day or 8:00 to 18:00, cells of 1, 26 or 40 px for
\* 15, 30 or 60 minutes.
Geometries ==
  [timeFrom : {0, 8 * 60}, timeTo : {18 * 60, minutesInADay},
   timeCellHeight : {1, 26, 40}, timeStep : {15, 30, 60}]

\* The minutes of the events: before timeFrom, inside the view, after timeTo,
\* of no duration, and ending before they start.
PositionStarts == {0, 7 * 60, 10 * 60, 20 * 60}
PositionEnds == {0, 7 * 60 + 30, 10 * 60, 10 * 60 + 1, 12 * 60, 20 * 60 + 30, minutesInADay}

InitPosition ==
  /\ events = [k \in {} |-> eventDefaults]
  /\ mutableEvents = <<>>
  /\ viewEvents = <<>>
  /\ eventIdIncrement = 0
  /\ view \in Views
  /\ time = TRUE
  /\ emitted = <<>>
  /\ last = NoCall
  /\ cellEvents = <<>>
  /\ options = [overlapsPerTimeStep |-> FALSE, timeStep |-> 30]
  /\ cellOverlaps = NoOverlaps
  /\ longestStreak = 0
  /\ geometry \in Geometries
  /\ InitTodayCache
  /\ clock = CivilDate(FirstYear, 0, 1)
  /\ InitNoLoop
  /\ \E s \in PositionStarts, e \in PositionEnds :
       positioned = [eventDefaults EXCEPT !.startTimeMinutes = s, !.endTimeMinutes = e]

UpdateEventPosition ==
  /\ positioned' = updateEventPosition(positioned, geometry)
  /\ last' = Call("updateEventPosition", NaN)
  /\ UNCHANGED <<eventVars, cellVars, geometry, todayVars, loopVars>>

UpdateEventPositionLegacy ==
  /\ positioned' = updateEventPositionLegacy(positioned, geometry)
  /\ last' = Call("updateEventPositionLegacy", NaN)
  /\ UNCHANGED <<eventVars, cellVars, geometry, todayVars, loopVars>>

NextPosition ==
  \/ UpdateEventPosition
  \/ UpdateEventPositionLegacy

SpecPosition == InitPosition /\ [][NextPosition]_vars

\* --------------------------------------------- the cache of today's date
\* `${getFullYear()}-${getMonth()}-${getDate()}`: the three numbers, apart.
formatToday(d) == <<d.year, d.month, d.date>>

\* todayFormatted(): the cache after the call; the call returns its todayF.
todayFormatted ==
  IF todayDate # clock.date
  THEN [now |-> clock, todayDate |-> clock.date, todayF |-> clock]
  ELSE [now |-> now, todayDate |-> todayDate, todayF |-> todayF]

\* The civil dates of the calendar, and their order.
CivilDates ==
  {CivilDate(y, m, d) : y \in FirstYear..(FirstYear + MaxYears - 1),
                        m \in 0..(MaxMonths - 1), d \in 1..MaxDates}
DateBefore(a, b) ==
  \/ a.year < b.year
  \/ a.year = b.year /\ a.month < b.month
  \/ a.year = b.year /\ a.month = b.month /\ a.date < b.date

InitToday ==
  /\ events = [k \in {} |-> eventDefaults]
  /\ mutableEvents = <<>>
  /\ viewEvents = <<>>
  /\ eventIdIncrement = 0
  /\ view \in Views
  /\ time = TRUE
  /\ emitted = <<>>
  /\ last = NoCall
  /\ cellEvents = <<>>
  /\ options = [overlapsPerTimeStep |-> FALSE, timeStep |-> 30]
  /\ cellOverlaps = NoOverlaps
  /\ longestStreak = 0
  /\ geometry = [timeFrom |-> 0, timeTo |-> minutesInADay, timeCellHeight |-> 40, timeStep |-> 30]
  /\ positioned = eventDefaults
  /\ InitTodayCache
  /\ clock \in CivilDates
  /\ InitNoLoop

\* The wall clock moves on to a later civil date.
AdvanceClock ==
  /\ \E d \in CivilDates : DateBefore(clock, d) /\ clock' = d
  /\ last' = Call("advanceClock", NaN)
  /\ UNCHANGED <<eventVars, cellVars, geometryVars, loopVars, now, todayDate, todayF, isTodayCall>>

\* date.isToday() on a date of the calendar.
IsToday ==
  /\ \E d \in CivilDates :
       LET cache == todayFormatted
       IN /\ now' = cache.now
          /\ todayDate' = cache.todayDate
          /\ todayF' = cache.todayF
          /\ isTodayCall' = [date |-> d, result |-> formatToday(d) = formatToday(cache.todayF)]
  /\ last' = Call("isToday", NaN)
  /\ UNCHANGED <<eventVars, cellVars, geometryVars, loopVars, clock>>

NextToday ==
  \/ AdvanceClock
  \/ IsToday

SpecToday == InitToday /\ [][NextToday]_vars

\* --------------------------------- the loop of createEventSegments and DST
\* The time zone shifts its clock at 02:00: a day of 23 hours has no wall-clock
\* time from 02:00 to 03:00, a day of 25 hours has that hour twice.
hourMilliseconds == 3600000

\* The instant of the local midnight that begins civil day d.
RECURSIVE dayStart(_)
dayStart(d) == IF d <= 0 THEN 0 ELSE dayStart(d - 1) + dayHours[d - 1] * hourMilliseconds

\* The civil day of an instant, and its wall-clock time in milliseconds.
dayOf(ts) == CHOOSE d \in DOMAIN dayHours : dayStart(d) <= ts /\ ts < dayStart(d + 1)
wallOf(ts) ==
  LET d == dayOf(ts)
      elapsed == ts - dayStart(d)
  IN IF dayHours[d] = 23 /\ elapsed >= 2 * hourMilliseconds THEN elapsed + hourMilliseconds
     ELSE IF dayHours[d] = 25 /\ elapsed >= 3 * hourMilliseconds THEN elapsed - hourMilliseconds
     ELSE elapsed

\* The instant of a wall-clock time of civil day d: a time that the day does
\* not have is moved on by the hour of the shift, a time that it has twice is
\* the earlier one.
instantAt(d, wall) ==
  IF dayHours[d] = 23 /\ wall >= 3 * hourMilliseconds THEN dayStart(d) + wall - hourMilliseconds
  ELSE IF dayHours[d] = 25 /\ wall >= 3 * hourMilliseconds
  THEN dayStart(d) + wall + hourMilliseconds
  ELSE dayStart(d) + wall

\* date.addDays(days): setDate(getDate() + days), the same wall-clock time of
\* the civil day that many days on.
addDaysCivil(ts, days) == instantAt(dayOf(ts) + days, wallOf(ts))
\* date.setHours(0, 0, 0, 0) and date.setHours(0, 0, 0), which keeps the
\* milliseconds.
setHoursMidnight(ts) == instantAt(dayOf(ts), 0)
setHours3Midnight(ts) == instantAt(dayOf(ts), ts % 1000)

\* nextMidnight of part_000 and of event-utils.js.
nextMidnightOf(ts) == setHoursMidnight(addDaysCivil(ts, 1))
nextMidnightLegacyOf(ts) == setHours3Midnight(ts + dayMilliseconds)

\* The time zones: no shift, or one day of 23 or 25 hours.
LoopCalendars ==
  {[d \in 0..(MaxLoopDays + 1) |-> 24]} \cup
  {[d \in 0..(MaxLoopDays + 1) |-> IF d = shifted THEN hours ELSE 24] :
     shifted \in 0..(MaxLoopDays - 1), hours \in {23, 25}}

InitLoop ==
  /\ events = [k \in {} |-> eventDefaults]
  /\ mutableEvents = <<>>
  /\ viewEvents = <<>>
  /\ eventIdIncrement = 0
  /\ view \in Views
  /\ time = TRUE
  /\ emitted = <<>>
  /\ last = NoCall
  /\ cellEvents = <<>>
  /\ options = [overlapsPerTimeStep |-> FALSE, timeStep |-> 30]
  /\ cellOverlaps = NoOverlaps
  /\ longestStreak = 0
  /\ geometry = [timeFrom |-> 0, timeTo |-> minutesInADay, timeCellHeight |-> 40, timeStep |-> 30]
  /\ positioned = eventDefaults
  /\ InitTodayCache
  /\ clock = CivilDate(FirstYear, 0, 1)
  /\ dayHours \in LoopCalendars
  /\ legacyLoop \in BOOLEAN
  /\ \E startDay \in {0, 1}, startHour \in {0, 10}, days \in {0, 1, 2}, endHour \in {0, 10, 23},
        viewStartDay \in {0, 1} :
       LET startDate == instantAt(startDay, startHour * hourMilliseconds)
           endDate == instantAt(startDay + days, endHour * hourMilliseconds)
           eventEnd == IF wallOf(endDate) = 0 THEN endDate - 1000 ELSE endDate
           viewStartDate == instantAt(viewStartDay, 0)
           viewEndDate == instantAt(MaxLoopDays, 24 * hourMilliseconds - 1000)
       IN /\ loopStart = MathMax(viewStartDate, startDate)
          /\ loopEnd = MathMin(viewEndDate, eventEnd)
          /\ loopTimestamp = MathMax(viewStartDate, startDate)
  /\ loopSegments = {}
  /\ loopIterations = 0
  /\ looping = TRUE

\* One iteration of the while loop of part_000.
LoopIteration ==
  /\ looping /\ ~legacyLoop
  /\ loopTimestamp <= loopEnd
  /\ loopIterations < MaxIterations
  /\ loopSegments' = loopSegments \cup {dayOf(loopTimestamp)}
  /\ loopTimestamp' = nextMidnightOf(loopTimestamp)
  /\ loopIterations' = loopIterations + 1
  /\ UNCHANGED <<eventVars, last, cellVars, geometryVars, todayVars, dayHours, legacyLoop,
                 loopStart, loopEnd, looping>>

\* One iteration of the while loop of event-utils.js.
LoopIterationLegacy ==
  /\ looping /\ legacyLoop
  /\ loopTimestamp <= loopEnd
  /\ loopIterations < MaxIterations
  /\ loopSegments' = loopSegments \cup {dayOf(loopTimestamp)}
  /\ loopTimestamp' = nextMidnightLegacyOf(loopTimestamp)
  /\ loopIterations' = loopIterations + 1
  /\ UNCHANGED <<eventVars, last, cellVars, geometryVars, todayVars, dayHours, legacyLoop,
                 loopStart, loopEnd, looping>>

\* The loop condition fails: createEventSegments returns.
LoopExit ==
  /\ looping
  /\ ~(loopTimestamp <= loopEnd)
  /\ looping' = FALSE
  /\ UNCHANGED <<eventVars, last, cellVars, geometryVars, todayVars, dayHours, legacyLoop,
                 loopStart, loopEnd, loopTimestamp, loopSegments, loopIterations>>

NextLoop ==
  \/ LoopIteration
  \/ LoopIterationLegacy
  \/ LoopExit

\* The loop is synchronous code: an iteration that can run does run.
SpecLoop == InitLoop /\ [][NextLoop]_vars /\ WF_vars(NextLoop)

\* --------------------------------------------- the two event collections
\* deleteAnEvent that filters the global collection only.
deleteAnEventGlobalOnly(eid) ==
  /\ emitted' = <<[signal |-> "event-delete", eid |-> eid]>>
  /\ mutableEvents' = FilterOut(mutableEvents, eid)
  /\ viewEvents' = viewEvents
  /\ last' = Call("delete", eid)
  /\ UNCHANGED <<events, eventIdIncrement, view, time, cellVars, restVars>>

\* deleteAnEvent(event, vuecal), for an event object that was created before,
\* in the collections or no longer in them.
deleteAnEvent(eid) ==
  /\ emitted' = <<[signal |-> "event-delete", eid |-> eid]>>
  /\ mutableEvents' = FilterOut(mutableEvents, eid)
  /\ viewEvents' = FilterOut(viewEvents, eid)
  /\ last' = Call("delete", eid)
  /\ UNCHANGED <<events, eventIdIncrement, view, time, cellVars, restVars>>

DeleteEvent == \E eid \in DOMAIN events : deleteAnEvent(eid)

\* createEvent at a time of day 0, without eventOptions.
CreatePlainEvent ==
  /\ eventIdIncrement < MaxCollectionIds
  /\ \E m \in {9 * 60, 22 * 60, 23 * 60}, hook \in HookResults, accepts24 \in BOOLEAN :
       createAnEvent(At(0, m), NoOptions, hook, accepts24)

NextCollections ==
  \/ CreatePlainEvent
  \/ DeleteEvent

SpecCollections == Init /\ [][NextCollections]_vars

\* ------------------------------------------------------------ claims
SegmentsCount(e) == IF e.hasSegments THEN KeysLength(e.segments) ELSE 1

\* C1 (as stated): after any sequence of createEvent, buildSegments with any
\* view window, addDaySegment and removeDaySegment calls, every event's
\* daysCount equals the number of keys of its segments, or 1 when segments is null.
C1_DaysCountIsSegmentCount ==
  \A eid \in DOMAIN events : events[eid].daysCount = SegmentsCount(events[eid])

\* C1 (amended): right after an addDaySegment call, and right after a
\* removeDaySegment call that deleted the segment keyed by the event's end day,
\* the event's daysCount equals the number of keys of its segments.
C1_DaysCountAfterAddOrRemove ==
  \A eid \in DOMAIN events :
    (/\ last.eid = eid
     /\ \/ last.op = "add"
        \/ last.op \in {"remove", "addThenRemove"} /\ last.removed)
    => /\ events[eid].hasSegments
       /\ events[eid].daysCount = KeysLength(events[eid].segments)

\* An addDaySegment call on an event of two segments has made it one of three days.
C1_Witness ==
  /\ last.op = "add"
  /\ last.pre.hasSegments /\ KeysLength(last.pre.segments) = 2
  /\ events[last.eid].daysCount = 3

\* The segment keys are consecutive civil days.
Consecutive(keys) ==
  /\ keys # {}
  /\ \A k \in keys : k # NaN
  /\ \A k \in keys : (k - 1 \in keys) \/ (\A j \in keys : k <= j)

\* The segments of C2: consecutive days, one first day and one last day.
WellFormedSegments(e) ==
  /\ e.hasSegments
  /\ Consecutive(DOMAIN e.segments)
  /\ Cardinality({k \in DOMAIN e.segments : e.segments[k].isFirstDay}) = 1
  /\ Cardinality({k \in DOMAIN e.segments : e.segments[k].isLastDay}) = 1

\* C2 (as stated): whenever an event has segments, after buildSegments with any
\* view window, addDaySegment or removeDaySegment, the segment keys are
\* consecutive civil days and exactly one segment is the first day and exactly
\* one the last day.
C2_SegmentsWellFormed ==
  \A eid \in DOMAIN events :
    (last.op \in {"build", "add", "remove", "addThenRemove"} /\ last.eid = eid
     /\ events[eid].hasSegments)
    => WellFormedSegments(events[eid])

\* The view window holds the whole event.
Covers(w, e) ==
  /\ w.startDate # NaN /\ w.endDate # NaN /\ e.startDate # NaN /\ e.endDate # NaN
  /\ w.startDate <= e.startDate /\ e.endDate <= w.endDate

\* An event that does not recur, with valid dates, whose start is not after its
\* end (a second earlier for an end at 00:00).
Regular(e) ==
  /\ ~isRepeat(e)
  /\ e.startDate # NaN /\ e.endDate # NaN
  /\ e.startDate <= (IF EndsAtMidnight(e.endDate) THEN e.endDate - 1000 ELSE e.endDate)

\* The last-day segment is the latest segment and is keyed by the day of the
\* event's endDate, which is the day of its end string.
TrailingLastDay(e) ==
  /\ e.hasSegments
  /\ formatDateLite(e.endDate) = substr10(e.end)
  /\ substr10(e.end) \in DOMAIN e.segments
  /\ e.segments[substr10(e.end)].isLastDay
  /\ \A k \in DOMAIN e.segments : k <= substr10(e.end)

\* C2 (amended): right after buildSegments of a regular event with a view window
\* that holds the whole event, the segment keys are consecutive civil days with
\* exactly one first-day and one last-day segment (in part_000 and in
\* event-utils.js); addDaySegment and removeDaySegment keep this when, before the
\* call, the last-day segment is the latest one and is keyed by the event's end
\* day, and addDaySegment establishes it on an event without segments that starts
\* and ends on one civil day.
C2_SegmentsWellFormedWhenCovered ==
  \A eid \in DOMAIN events :
    LET e == events[eid] IN
    /\ (last.op = "build" /\ last.eid = eid /\ Regular(e) /\ Covers(last.window, e))
         => /\ WellFormedSegments(e)
            /\ WellFormedSegments(createEventSegmentsLegacy(e, last.window.startDate,
                                                            last.window.endDate))
    /\ (last.op \in {"add", "remove", "addThenRemove"} /\ last.eid = eid
        /\ WellFormedSegments(last.pre) /\ TrailingLastDay(last.pre))
         => WellFormedSegments(e)
    /\ (last.op = "add" /\ last.eid = eid /\ ~last.pre.hasSegments
        /\ last.pre.endDate # NaN
        /\ substr10(last.pre.start) = formatDateLite(last.pre.endDate))
         => WellFormedSegments(e)

\* buildSegments has cut a three-day event into three consecutive segments.
C2_Witness ==
  /\ last.op = "build"
  /\ Regular(events[last.eid]) /\ Covers(last.window, events[last.eid])
  /\ KeysLength(events[last.eid].segments) = 3

\* end, endDate, daysCount and the segment set of b are those of a.
SameEndAndSegments(a, b) ==
  /\ a.end = b.end /\ a.endDate = b.endDate /\ a.daysCount = b.daysCount
  /\ a.hasSegments = b.hasSegments /\ a.segments = b.segments

\* C3 (as stated): for every event, also one whose segments is null,
\* addDaySegment and then removeDaySegment restore the end string, endDate,
\* daysCount and the segment set (null if it was null).
C3_AddThenRemoveRestores ==
  last.op = "addThenRemove" => SameEndAndSegments(last.pre2, events[last.eid])

\* The end string is `YYYY-MM-DD HH:mm` of a valid endDate and of endTimeMinutes.
CanonicalEnd(e) ==
  /\ e.endDate # NaN
  /\ e.end = DateTimeStr(formatDateLite(e.endDate), formatTime(e.endTimeMinutes))

\* C3 (amended): for an event that has segments, whose last-day segment is the
\* latest one, is keyed by the event's end day and ends at the event's
\* endTimeMinutes, whose daysCount is the number of its segments and whose end
\* string is the `YYYY-MM-DD HH:mm` of its endDate and endTimeMinutes,
\* addDaySegment then removeDaySegment restore end, endDate, daysCount and the
\* segment set.  For an event on one civil day whose segments is null (daysCount
\* 1, such an end string) they restore end, endDate and daysCount and leave one
\* segment, first and last day, from startTimeMinutes to endTimeMinutes: not null.
C3_AddThenRemoveRestoresTrailing ==
  last.op = "addThenRemove" =>
    LET a == last.pre2
        b == events[last.eid]
    IN /\ (/\ a.hasSegments /\ CanonicalEnd(a) /\ TrailingLastDay(a)
           /\ a.segments[substr10(a.end)].endTimeMinutes = a.endTimeMinutes
           /\ a.daysCount = KeysLength(a.segments))
          => SameEndAndSegments(a, b)
       /\ (/\ ~a.hasSegments /\ CanonicalEnd(a) /\ a.daysCount = 1
           /\ substr10(a.start) = substr10(a.end))
          => /\ a.end = b.end /\ a.endDate = b.endDate /\ a.daysCount = b.daysCount
             /\ b.hasSegments
             /\ b.segments = SetKey(NoSegments, substr10(a.start),
                                    Segment(a.startDate, substr10(a.start),
                                            a.startTimeMinutes, a.endTimeMinutes,
                                            TRUE, TRUE))

\* The pair of calls has run on a two-day event with segments and brought it back.
C3_Witness ==
  /\ last.op = "addThenRemove"
  /\ last.pre2.hasSegments /\ CanonicalEnd(last.pre2) /\ TrailingLastDay(last.pre2)
  /\ KeysLength(last.pre2.segments) = 2
  /\ SameEndAndSegments(last.pre2, events[last.eid])

\* The ids that overlaps[i] holds.
OverlapsOf(table, i) == {table[i].overlaps[k] : k \in DOMAIN table[i].overlaps}

SymmetricOverlaps(table) ==
  \A i \in DOMAIN table :
    /\ \A j \in DOMAIN table : j \in OverlapsOf(table, i) <=> i \in OverlapsOf(table, j)
    /\ OverlapsOf(table, i) \subseteq DOMAIN table
    /\ i \notin OverlapsOf(table, i)
    /\ Cardinality(OverlapsOf(table, i)) = Len(table[i].overlaps)

\* C4: in the table of checkCellOverlappingEvents, for every list of cell events
\* (with the distinct _eids that createAnEvent gives) and all options, j is in
\* overlaps[i] exactly when i is in overlaps[j], no event lists itself and no id
\* is twice in one list; so with the eventInRange of part_000 and with that of
\* event-utils.js.
C4_OverlapsSymmetric ==
  last.op = "overlaps" =>
    /\ SymmetricOverlaps(cellOverlaps)
    /\ SymmetricOverlaps(checkCellOverlappingEventsLegacy(cellEvents, options)[1])

\* A table of three events where one overlaps both others and these two do
\* not overlap each other.
C4_Witness ==
  /\ last.op = "overlaps"
  /\ Len(cellEvents) = 3
  /\ \E i \in DOMAIN cellOverlaps : Len(cellOverlaps[i].overlaps) = 2
  /\ \E i \in DOMAIN cellOverlaps : Len(cellOverlaps[i].overlaps) = 1

\* C5: for every record of a computed table, getOverlapsStreak is at least 1
\* and at most the length of the record's overlaps plus 1.
C5_StreakBounds ==
  last.op = "overlaps" =>
    \A id \in DOMAIN cellOverlaps :
      LET streak == getOverlapsStreak(cellOverlaps[id], cellOverlaps)
      IN /\ streak >= 1
         /\ streak <= Len(cellOverlaps[id].overlaps) + 1
         /\ cellOverlaps[id].overlaps = <<>> => streak = 1

\* A record with two overlaps that do not overlap each other, whose streak is
\* less than its overlaps plus 1.
C5_Witness ==
  /\ last.op = "overlaps"
  /\ \E id \in DOMAIN cellOverlaps :
       /\ Len(cellOverlaps[id].overlaps) = 2
       /\ getOverlapsStreak(cellOverlaps[id], cellOverlaps) = 2

\* C6 (as stated): every event is in the range of its own startDate and
\* endDate, for the eventInRange of part_000 and that of event-utils.js.
C6_InOwnRange ==
  \A eid \in DOMAIN events :
    /\ eventInRange(events[eid], events[eid].startDate, events[eid].endDate)
    /\ eventInRangeLegacy(events[eid], events[eid].startDate, events[eid].endDate) = "true"

\* The civil day of the start is not after the civil day of the end.
StartDayNotAfterEndDay(e) ==
  /\ e.startDate # NaN /\ e.endDate # NaN
  /\ formatDateLite(e.startDate) <= formatDateLite(e.endDate)
\* The weekday of the start is one of the weekdays of the repeat rule.
StartsOnRepeatDay(e) ==
  (IF getDay(e.startDate) = 0 THEN 7 ELSE getDay(e.startDate)) \in e.repeat.weekdays

\* C6 (amended): an all-day or time-less event with valid dates whose start day
\* is not after its end day, and a timed event with valid dates whose start is
\* strictly before its end, is in the range of its own startDate and endDate;
\* in event-utils.js a timed recurring event must also start on a day that its
\* rule matches.  A timed event whose start equals its end is not in its own
\* range, in either file.
C6_InOwnRangeWhenStartBeforeEnd ==
  \A eid \in DOMAIN events :
    LET e == events[eid]
        dayOnly == e.allDay \/ hasNoColon(e.start)
        own == eventInRange(e, e.startDate, e.endDate)
        ownLegacy == eventInRangeLegacy(e, e.startDate, e.endDate)
    IN /\ (dayOnly /\ StartDayNotAfterEndDay(e)) => (own /\ ownLegacy = "true")
       /\ (~dayOnly /\ Lt(e.startDate, e.endDate)) => own
       /\ (~dayOnly /\ Lt(e.startDate, e.endDate) /\ (isRepeat(e) => StartsOnRepeatDay(e)))
            => ownLegacy = "true"
       /\ (~dayOnly /\ e.startDate # NaN /\ e.startDate = e.endDate)
            => (~own /\ ownLegacy = "false")

\* A timed weekly event, longer than nothing, that starts on a day of its rule.
C6_Witness ==
  \E eid \in DOMAIN events :
    /\ ~events[eid].allDay /\ ~hasNoColon(events[eid].start)
    /\ isRepeat(events[eid]) /\ StartsOnRepeatDay(events[eid])
    /\ Lt(events[eid].startDate, events[eid].endDate)
    /\ eventInRangeLegacy(events[eid], events[eid].startDate, events[eid].endDate) = "true"
    /\ eventInRange(events[eid], events[eid].startDate, events[eid].endDate)

\* The civil days from instant a to instant b.
DaysFromTo(a, b) ==
  IF Le(a, b) THEN formatDateLite(a)..formatDateLite(b) ELSE {}

ValidDates(e) == e.startDate # NaN /\ e.endDate # NaN

\* C7 (as stated): buildSegments of a non-recurring event gives one segment for
\* each civil day of the intersection of [event start, event end] with the view
\* window and none for another day; the segment of the start day starts at
\* startTimeMinutes, that of the end day ends at endTimeMinutes, every other
\* boundary is 0 or 1440.
C7_SegmentPerDayOfIntersection ==
  (last.op = "build" /\ ~isRepeat(events[last.eid]) /\ ValidDates(events[last.eid])) =>
    LET e == events[last.eid]
        days == DaysFromTo(MathMax(last.window.startDate, e.startDate),
                           MathMin(last.window.endDate, e.endDate))
    IN /\ DOMAIN e.segments = days
       /\ \A d \in days \cap DOMAIN e.segments :
            /\ e.segments[d].startTimeMinutes =
                 (IF d = formatDateLite(e.startDate) THEN e.startTimeMinutes ELSE 0)
            /\ e.segments[d].endTimeMinutes =
                 (IF d = formatDateLite(e.endDate) THEN e.endTimeMinutes ELSE minutesInADay)

\* A window of whole civil days: from 00:00:00 of a day to 23:59:59 of a day.
WholeDays(w) ==
  /\ w.startDate # NaN /\ w.endDate # NaN
  /\ w.startDate % dayMilliseconds = 0
  /\ w.endDate % dayMilliseconds = dayMilliseconds - 1000

\* The last instant of the event that counts for its segments: its end, or the
\* second before it for an end at 00:00.
LastInstant(e) ==
  IF e.endDate % dayMilliseconds < 60000 THEN e.endDate - 1000 ELSE e.endDate

\* C7 (amended): for a non-recurring event with valid dates and a view window of
\* whole civil days, buildSegments gives one segment for each civil day of the
\* window from the event's start to its last instant (its end, or one second
\* earlier for an end at 00:00) and none for another day, none at all when the
\* start is after the last instant; the segment of the start day is the first-day
\* segment and starts at startTimeMinutes, the segment of the day of the last
\* instant is the last-day segment and ends at endTimeMinutes, every other
\* boundary is 0 or 1440.  An event from 18:00 of a day to 02:00 of the next in
\* the window spans 2 days (countDays) and has the segments 18:00-24:00 and
\* 00:00-02:00.
C7_SegmentPerDayOfWindow ==
  (last.op = "build" /\ ~isRepeat(events[last.eid]) /\ ValidDates(events[last.eid])
   /\ WholeDays(last.window)) =>
    LET e == events[last.eid]
        days == DaysFromTo(MathMax(last.window.startDate, e.startDate),
                           MathMin(last.window.endDate, LastInstant(e)))
    IN /\ e.hasSegments
       /\ DOMAIN e.segments = days
       /\ \A d \in days \cap DOMAIN e.segments :
            /\ e.segments[d].start = d
            /\ e.segments[d].isFirstDay = (d = formatDateLite(e.startDate))
            /\ e.segments[d].isLastDay = (d = formatDateLite(LastInstant(e)))
            /\ e.segments[d].startTimeMinutes =
                 (IF d = formatDateLite(e.startDate) THEN e.startTimeMinutes ELSE 0)
            /\ e.segments[d].endTimeMinutes =
                 (IF d = formatDateLite(LastInstant(e)) THEN e.endTimeMinutes
                  ELSE minutesInADay)
       /\ (/\ e.startDate % dayMilliseconds = 18 * 3600000
           /\ e.endDate = e.startDate + 8 * 3600000
           /\ Covers(last.window, e))
          => /\ countDays(e.startDate, e.endDate) = 2
             /\ DOMAIN e.segments =
                  {formatDateLite(e.startDate), formatDateLite(e.startDate) + 1}

\* buildSegments has run on an event from 18:00 to 02:00 of the next day, inside
\* the window, and has given it the segments 18:00-24:00 and 00:00-02:00.
C7_Witness ==
  /\ last.op = "build" /\ WholeDays(last.window)
  /\ ~isRepeat(events[last.eid])
  /\ events[last.eid].startDate = At(0, 18 * 60)
  /\ events[last.eid].endDate = At(1, 2 * 60)
  /\ DOMAIN events[last.eid].segments = {0, 1}
  /\ events[last.eid].segments[0].startTimeMinutes = 18 * 60
  /\ events[last.eid].segments[0].endTimeMinutes = minutesInADay
  /\ events[last.eid].segments[1].startTimeMinutes = 0
  /\ events[last.eid].segments[1].endTimeMinutes = 2 * 60

\* The events of the cell are timed and neither background nor all-day.
TimedCell ==
  \A i \in DOMAIN cellEvents :
    /\ ~cellEvents[i].background /\ ~cellEvents[i].allDay
    /\ ~hasNoColon(cellEvents[i].start)

\* The time ranges [start, end) of a and b have an instant in common.
Intersect(a, b) == MathMax(a.startDate, b.startDate) < MathMin(a.endDate, b.endDate)

\* The number of events of the cell that come before the one at index i: those
\* with a smaller start string, and those with the same start and a greater id.
RankOf(i) ==
  Cardinality({j \in DOMAIN cellEvents :
                 \/ strLess(cellEvents[j].start, cellEvents[i].start)
                 \/ /\ cellEvents[j].start = cellEvents[i].start
                    /\ cellEvents[j]._eid > cellEvents[i]._eid})

\* C8: when the n timed events of a cell, none background or all-day, intersect
\* pairwise and overlapsPerTimeStep is off, the largest streak is n and the
\* positions are 0..n-1 in ascending order of the start string, equal starts in
\* descending order of id, in every input order.
C8_PairwiseIntersectingFillColumns ==
  (/\ last.op = "overlaps" /\ ~options.overlapsPerTimeStep
   /\ Len(cellEvents) >= 1 /\ TimedCell
   /\ \A i, j \in DOMAIN cellEvents : i # j => Intersect(cellEvents[i], cellEvents[j]))
  => /\ longestStreak = Len(cellEvents)
     /\ \A i \in DOMAIN cellEvents :
          cellOverlaps[cellEvents[i]._eid].position = RankOf(i)
     /\ {cellOverlaps[id].position : id \in DOMAIN cellOverlaps} = 0..(Len(cellEvents) - 1)

\* Three events that intersect pairwise, two of them with the same start, listed
\* with the greater id of the two first.
C8_Witness ==
  /\ last.op = "overlaps" /\ ~options.overlapsPerTimeStep
  /\ Len(cellEvents) = 3 /\ TimedCell
  /\ \A i, j \in DOMAIN cellEvents : i # j => Intersect(cellEvents[i], cellEvents[j])
  /\ cellEvents[1].start = cellEvents[2].start /\ cellEvents[1]._eid > cellEvents[2]._eid
  /\ cellOverlaps[cellEvents[1]._eid].position < cellOverlaps[cellEvents[2]._eid].position
  /\ longestStreak = 3

\* In the table, the middle event overlaps the two others, which do not overlap
\* each other.
Chain(a, b, c) ==
  /\ OverlapsOf(cellOverlaps, b) = {a, c}
  /\ OverlapsOf(cellOverlaps, a) = {b}
  /\ OverlapsOf(cellOverlaps, c) = {b}

\* C9: for three timed events of a cell where A overlaps B, B overlaps C and A
\* does not overlap C, in every input order and under all options, the largest
\* streak is 2 and getOverlapsStreak is 2 for each of the three.
C9_ChainHasTwoColumns ==
  (/\ last.op = "overlaps" /\ Len(cellEvents) = 3 /\ TimedCell
   /\ \E a, b, c \in DOMAIN cellOverlaps : a # c /\ Chain(a, b, c))
  => /\ longestStreak = 2
     /\ \A id \in DOMAIN cellOverlaps :
          getOverlapsStreak(cellOverlaps[id], cellOverlaps) = 2

\* A chain whose middle event is the last of the list.
C9_Witness ==
  /\ last.op = "overlaps" /\ Len(cellEvents) = 3 /\ TimedCell
  /\ \E a, c \in DOMAIN cellOverlaps : a # c /\ Chain(a, cellEvents[3]._eid, c)
  /\ longestStreak = 2

\* The week of civil days 0 to 6, day 0 a Monday.
WeekWindow == [startDate |-> At(0, 0), endDate |-> EndOfDay(6)]

\* The Mondays and Wednesdays of the week from the event's start day on.
MatchingDays(e) ==
  {d \in 0..6 : d >= formatDateLite(e.startDate) /\ getDay(At(d, 0)) \in {1, 3}}

\* The number of civil days after its first that the event reaches into.
DaysAfterFirst(e) == formatDateLite(LastInstant(e)) - formatDateLite(e.startDate)

KeyedByStartDay(e) ==
  \A d \in DOMAIN e.occurrences :
    /\ formatDateLite(e.occurrences[d].start) = d
    /\ e.occurrences[d].start <= e.occurrences[d].end

C11_BackgroundAndAllDayApart ==
  last.op = "overlaps" =>
    \A i \in DOMAIN cellEvents :
      (cellEvents[i].background \/ cellEvents[i].allDay) =>
        /\ cellEvents[i]._eid \in DOMAIN cellOverlaps
        /\ cellOverlaps[cellEvents[i]._eid].overlaps = <<>>
        /\ cellOverlaps[cellEvents[i]._eid].position = 0
        /\ \A id \in DOMAIN cellOverlaps :
             cellEvents[i]._eid \notin OverlapsOf(cellOverlaps, id)

\* A background event and an all-day event listed after a timed event whose
\* range they share, and this one overlapping a third.
C11_Witness ==
  /\ last.op = "overlaps" /\ Len(cellEvents) = 3
  /\ \E i, j, k \in DOMAIN cellEvents :
       /\ i < j /\ (cellEvents[j].background \/ cellEvents[j].allDay)
       /\ ~cellEvents[i].background /\ ~cellEvents[i].allDay
       /\ eventInRange(cellEvents[j], cellEvents[i].startDate, cellEvents[i].endDate)
       /\ cellOverlaps[cellEvents[j]._eid].overlaps = <<>>
       /\ cellOverlaps[cellEvents[i]._eid].overlaps = <<cellEvents[k]._eid>>

\* The signals of a list of emissions.
SignalsOf(list) == {list[i].signal : i \in DOMAIN list}

\* C12: a createEvent that the hook refuses leaves the global collection and the
\* working set of the view as they were, inserts no event object and emits
\* neither event-create nor event-change.
C12_VetoLeavesCollections ==
  [][last'.op = "veto" =>
       /\ mutableEvents' = mutableEvents
       /\ viewEvents' = viewEvents
       /\ events' = events
       /\ SignalsOf(emitted') \cap {"event-create", "event-change"} = {}]_vars

\* A refused createEvent while the collections hold two events.
C12_Witness ==
  /\ last.op = "veto"
  /\ Len(mutableEvents) = 2 /\ Len(viewEvents) = 2
  /\ last.eid \notin DOMAIN events

\* The last call was one of the two updateEventPosition.
Positioned == last.op \in {"updateEventPosition", "updateEventPositionLegacy"}

\* C13: after updateEventPosition, with timeCellHeight > 0 and timeStep > 0, the
\* event's top is at least 0 and its height at least 5, also for an event of
\* no duration, one that starts after timeTo and one that ends before timeFrom.
C13_TopAndHeightBounds ==
  (Positioned /\ geometry.timeCellHeight > 0 /\ geometry.timeStep > 0) =>
    /\ positioned.top >= 0
    /\ positioned.height >= 5

\* The same for updateEventPosition of part_000 alone.
C13_TopAndHeightBoundsPrimary ==
  (last.op = "updateEventPosition" /\ geometry.timeCellHeight > 0 /\ geometry.timeStep > 0) =>
    /\ positioned.top >= 0
    /\ positioned.height >= 5

\* An event of no duration inside the view, placed by updateEventPosition of
\* event-utils.js with height 0.
C13_Witness ==
  /\ last.op = "updateEventPositionLegacy"
  /\ positioned.startTimeMinutes = positioned.endTimeMinutes
  /\ positioned.startTimeMinutes > geometry.timeFrom
  /\ positioned.height = 0

\* C14: no call of createEvent, buildSegments, addDaySegment or removeDaySegment
\* throws, in particular not removeDaySegment on a single-day event whose
\* segments is null.
C14_NoCallThrows == ~last.threw

\* removeDaySegment threw on a single-day event that has no segments.
C14_Witness ==
  /\ last.op = "remove" /\ last.threw
  /\ last.eid \in DOMAIN events
  /\ ~events[last.eid].hasSegments
  /\ events[last.eid].daysCount = 1
  /\ events[last.eid].endDate # NaN

\* A timed event that does not repeat.
TimedOnce(e) == ~e.allDay /\ ~hasNoColon(e.start) /\ ~isRepeat(e)

\* C15: for a timed event that does not repeat, eventInRange is true exactly
\* when the event starts before the end of the range and ends after its start;
\* two events of which one ends at the instant the other starts are not in
\* each other's overlap list.
C15_HalfOpenRange ==
  last.op = "overlaps" =>
    \A i, j \in DOMAIN cellEvents :
      LET e == cellEvents[i]
          e2 == cellEvents[j]
      IN /\ TimedOnce(e) =>
              (eventInRange(e, e2.startDate, e2.endDate)
                 <=> (e.startDate < e2.endDate /\ e.endDate > e2.startDate))
         /\ (TimedOnce(e) /\ TimedOnce(e2) /\ e.endDate = e2.startDate) =>
              /\ e2._eid \notin OverlapsOf(cellOverlaps, e._eid)
              /\ e._eid \notin OverlapsOf(cellOverlaps, e2._eid)

\* Two back-to-back events beside a third that intersects both and is listed
\* with both.
C15_Witness ==
  /\ last.op = "overlaps"
  /\ \E i, j, k \in DOMAIN cellEvents :
       /\ TimedOnce(cellEvents[i]) /\ TimedOnce(cellEvents[j]) /\ TimedOnce(cellEvents[k])
       /\ cellEvents[i].endDate = cellEvents[j].startDate
       /\ cellEvents[i].startDate < cellEvents[i].endDate
       /\ cellEvents[j].startDate < cellEvents[j].endDate
       /\ OverlapsOf(cellOverlaps, cellEvents[k]._eid) = {cellEvents[i]._eid, cellEvents[j]._eid}
       /\ OverlapsOf(cellOverlaps, cellEvents[i]._eid) = {cellEvents[k]._eid}

\* The ids of a collection.
IdsOf(list) == {list[i] : i \in DOMAIN list}

\* post holds the ids of pre other than eid, each once, in the order of pre.
OthersInOrder(pre, post, eid) ==
  /\ IdsOf(post) = IdsOf(pre) \ {eid}
  /\ Len(post) = Cardinality({i \in DOMAIN pre : pre[i] # eid})
  /\ \A i, j \in DOMAIN post :
       i < j => IndexOf(pre, post[i]) < IndexOf(pre, post[j])

\* C16: deleteEvent emits event-delete with the event first; after it neither
\* collection holds the event's id and every other event is in both collections
\* in its former order. The same holds for the delete callback of the creation
\* hook at the time the hook returns.
C16_DeleteRemovesById ==
  [][/\ last'.op = "delete" =>
          /\ emitted' # <<>>
          /\ emitted'[1] = [signal |-> "event-delete", eid |-> last'.eid]
          /\ OthersInOrder(mutableEvents, mutableEvents', last'.eid)
          /\ OthersInOrder(viewEvents, viewEvents', last'.eid)
     /\ (last'.op \in {"create", "veto"} /\ "event-delete" \in SignalsOf(emitted')) =>
          /\ emitted'[1] = [signal |-> "event-delete", eid |-> last'.eid]
          /\ OthersInOrder(mutableEvents, last'.mutableAfterHook, last'.eid)
          /\ OthersInOrder(viewEvents, last'.viewAfterHook, last'.eid)]_vars

\* The second of three events was deleted.
C16_Witness ==
  /\ last.op = "delete" /\ last.eid = 1
  /\ mutableEvents = <<0, 2>> /\ viewEvents = <<0, 2>>
  /\ emitted = <<[signal |-> "event-delete", eid |-> 1]>>

\* addDaySegment finds no segment keyed by the end day of the event e.
AddLookupFails(e) ==
  formatDateLite(e.endDate) \notin
    (IF e.hasSegments THEN DOMAIN e.segments ELSE {substr10(e.start)})

\* removeDaySegment, past its early return, finds no segment keyed by the day
\* before the end day of the event e.
RemoveLookupFails(e) ==
  /\ e.hasSegments /\ KeysLength(e.segments) > 1
  /\ formatDateLite(subtractDays(e.endDate, 1)) \notin DOMAIN e.segments \ {substr10(e.end)}

\* The last call was an addDaySegment or a removeDaySegment whose lookup failed.
LookupFailed ==
  \/ last.op = "add" /\ AddLookupFails(last.pre)
  \/ last.op \in {"remove", "addThenRemove"} /\ ~last.threw /\ RemoveLookupFails(last.pre)

\* C17: when the lookup of the previous segment fails in addDaySegment or
\* removeDaySegment, the call throws nothing and leaves the event's segments,
\* daysCount, endDate and end as they were.
C17_LookupFailureSkipsCall ==
  LookupFailed =>
    /\ ~last.threw
    /\ events[last.eid].hasSegments = last.pre.hasSegments
    /\ events[last.eid].segments = last.pre.segments
    /\ events[last.eid].daysCount = last.pre.daysCount
    /\ events[last.eid].endDate = last.pre.endDate
    /\ events[last.eid].end = last.pre.end

\* As amended: the call throws nothing and skips the update of the previous
\* segment only. addDaySegment still adds the segment of the next day as the
\* last one and moves endDate and end one day on; removeDaySegment still
\* deletes the segment keyed by the end day, counts one segment less and moves
\* endDate and end one day back. Every other segment is left as it was.
C17_LookupFailureSkipsPreviousOnly ==
  LookupFailed =>
    LET e == events[last.eid]
        pre == last.pre
    IN /\ ~last.threw
       /\ e.hasSegments
       /\ last.op = "add" =>
            LET k == formatDateLite(addDays(pre.endDate, 1))
            IN /\ DOMAIN e.segments =
                    (IF pre.hasSegments THEN DOMAIN pre.segments ELSE {substr10(pre.start)})
                      \cup {k}
               /\ pre.hasSegments =>
                    \A key \in DOMAIN pre.segments \ {k} : e.segments[key] = pre.segments[key]
               /\ e.segments[k].isLastDay /\ ~e.segments[k].isFirstDay
               /\ e.daysCount = KeysLength(e.segments)
               /\ e.endDate = addDays(pre.endDate, 1)
               /\ e.end = DateTimeStr(k, formatTime(pre.endTimeMinutes))
       /\ last.op \in {"remove", "addThenRemove"} =>
            LET endDate == subtractDays(pre.endDate, 1)
            IN /\ DOMAIN e.segments = DOMAIN pre.segments \ {substr10(pre.end)}
               /\ \A key \in DOMAIN e.segments : e.segments[key] = pre.segments[key]
               /\ e.daysCount = KeysLength(pre.segments) - 1
               /\ e.endDate = endDate
               /\ e.end = DateTimeStr(formatDateLite(endDate), formatTime(pre.endTimeMinutes))

\* addDaySegment on an event with segments of which none is keyed by its end
\* day: the event has one segment more and ends a day later.
C17_Witness ==
  /\ last.op = "add" /\ AddLookupFails(last.pre)
  /\ last.pre.hasSegments /\ last.pre.endDate # NaN
  /\ KeysLength(events[last.eid].segments) = KeysLength(last.pre.segments) + 1
  /\ events[last.eid].endDate = addDays(last.pre.endDate, 1)

\* removeDaySegment whose lookup failed.
C17_WitnessRemove ==
  /\ last.op \in {"remove", "addThenRemove"} /\ ~last.threw /\ RemoveLookupFails(last.pre)
  /\ last.pre.endDate # NaN
  /\ events[last.eid].endDate = subtractDays(last.pre.endDate, 1)

\* C18: after any wall-clock advances and isToday calls, the cached today-string
\* is that of the wall-clock date, and isToday answers true exactly for the
\* date whose year, month and day-of-month are those of the wall clock, also
\* after the clock moved to the same day-of-month of another month or year.
C18_IsTodayNeverStale ==
  last.op = "isToday" =>
    /\ formatToday(todayF) = formatToday(clock)
    /\ isTodayCall.result <=> (/\ isTodayCall.date.year = clock.year
                               /\ isTodayCall.date.month = clock.month
                               /\ isTodayCall.date.date = clock.date)

\* isToday answered false for the wall-clock date: the cache holds the same
\* day-of-month of an earlier month.
C18_Witness ==
  /\ last.op = "isToday"
  /\ isTodayCall.date = clock
  /\ ~isTodayCall.result
  /\ todayDate = clock.date
  /\ DateBefore(todayF, clock)

\* The civil days from the first timestamp of the loop to its end.
CivilDaysOfRange ==
  IF loopStart <= loopEnd THEN dayOf(loopEnd) - dayOf(loopStart) + 1 ELSE 0

\* An iteration moves the timestamp strictly on, to the midnight that begins
\* the next civil day.
CursorAdvances ==
  loopIterations' = loopIterations + 1 =>
    /\ loopTimestamp' > loopTimestamp
    /\ loopTimestamp' = dayStart(dayOf(loopTimestamp) + 1)

\* C19: the loop of buildSegments ends for every event and view window; each
\* iteration moves the timestamp strictly on to the next civil midnight, also
\* over a day of 23 or 25 hours, and the loop runs at most once per civil day
\* of the range.
C19_LoopTerminates ==
  /\ [][CursorAdvances]_vars
  /\ [](loopIterations <= CivilDaysOfRange)
  /\ <>(~looping)

\* The same for the loop of part_000 alone.
C19_LoopTerminatesPrimary ==
  /\ [][~legacyLoop => CursorAdvances]_vars
  /\ [](~legacyLoop => loopIterations <= CivilDaysOfRange)
  /\ <>(legacyLoop \/ ~looping)

\* The loop of event-utils.js ran more often than the range has civil days and
\* stands at the midnight of a day of 25 hours.
C19_Witness ==
  /\ legacyLoop /\ looping
  /\ loopIterations > CivilDaysOfRange
  /\ dayHours[dayOf(loopTimestamp)] = 25
  /\ loopTimestamp = dayStart(dayOf(loopTimestamp))
  /\ loopTimestamp <= loopEnd

\* The size of the largest set of events of the cell that intersect pairwise.
LargestPairwiseIntersecting ==
  LET sets == {S \in SUBSET DOMAIN cellEvents :
                 \A i, j \in S : i # j => Intersect(cellEvents[i], cellEvents[j])}
  IN CHOOSE n \in 0..Len(cellEvents) :
       /\ \E S \in sets : Cardinality(S) = n
       /\ \A S \in sets : Cardinality(S) <= n

\* C20: for a list of timed events in any order, the largest streak that
\* checkCellOverlappingEvents returns is the size of the largest set of events
\* that intersect pairwise.
C20_LongestStreakIsLargestSet ==
  (last.op = "overlaps" /\ TimedCell) => longestStreak = LargestPairwiseIntersecting

\* Six events of which four are simultaneous at 11:00, with a largest streak of
\* three.
C20_Witness ==
  /\ last.op = "overlaps" /\ TimedCell
  /\ Len(cellEvents) = 6
  /\ Cardinality({i \in DOMAIN cellEvents :
                    cellEvents[i].startTimeMinutes <= 11 * 60
                      /\ 11 * 60 < cellEvents[i].endTimeMinutes}) = 4
  /\ LargestPairwiseIntersecting = 4
  /\ longestStreak = 3

\* C21: in the table that checkCellOverlappingEvents returns for timed events,
\* two events that are in each other's overlap list have different positions,
\* in any order of the list and also with equal start strings.
C21_OverlappingHaveDifferentPositions ==
  (last.op = "overlaps" /\ TimedCell) =>
    \A a, b \in DOMAIN cellOverlaps :
      (a # b /\ b \in OverlapsOf(cellOverlaps, a)) =>
        cellOverlaps[a].position # cellOverlaps[b].position

\* Three events of which the second intersects the first and the third, the
\* first and the third being apart: the second and the third are both at
\* position 1.
C21_Witness ==
  /\ last.op = "overlaps" /\ TimedCell
  /\ ~options.overlapsPerTimeStep
  /\ \E a, b, c \in DOMAIN cellOverlaps :
       /\ OverlapsOf(cellOverlaps, a) = {b}
       /\ OverlapsOf(cellOverlaps, b) = {a, c}
       /\ OverlapsOf(cellOverlaps, c) = {b}
       /\ cellOverlaps[a].position = 0
       /\ cellOverlaps[b].position = 1
       /\ cellOverlaps[c].position = 1

\* C22: the position of every event of the cell is a column of the cell: at
\* least 0, below the largest streak of the same call, and at most the length
\* of the event's overlap list.
C22_PositionIsColumn ==
  last.op = "overlaps" =>
    \A id \in DOMAIN cellOverlaps :
      /\ 0 <= cellOverlaps[id].position
      /\ cellOverlaps[id].position < longestStreak
      /\ cellOverlaps[id].position <= Len(cellOverlaps[id].overlaps)

\* Six timed events with a largest streak of three, one of them at position 3.
C22_Witness ==
  /\ last.op = "overlaps" /\ TimedCell
  /\ Len(cellEvents) = 6
  /\ longestStreak = 3
  /\ \E id \in DOMAIN cellOverlaps :
       /\ cellOverlaps[id].position = 3
       /\ Len(cellOverlaps[id].overlaps) >= 3

\* C23: an event that createEvent returns without overrides has endTimeMinutes
\* = startTimeMinutes + 120 with 0 <= startTimeMinutes < endTimeMinutes <= 1440,
\* and its end string and endDate are the valid instant two hours after its
\* start, also for a start later than 22:00.
C23_DefaultDuration ==
  last.op = "create" =>
    LET e == events[last.eid]
    IN /\ e.endTimeMinutes = e.startTimeMinutes + 120
       /\ 0 <= e.startTimeMinutes /\ e.startTimeMinutes < e.endTimeMinutes
       /\ e.endTimeMinutes <= minutesInADay
       /\ e.endDate # NaN
       /\ e.endDate = e.startDate + defaultEventDuration * 3600000
       /\ \A accepts24 \in BOOLEAN : stringToDate(e.end, accepts24) = e.endDate

\* An event created at 23:00 with the time shown: it ends at minute 1500 of its
\* day, at "25:00", on an Invalid Date.
C23_Witness ==
  /\ last.op = "create" /\ time
  /\ events[last.eid].startTimeMinutes = 23 * 60
  /\ events[last.eid].endTimeMinutes = 25 * 60
  /\ events[last.eid].end.hh = 25
  /\ events[last.eid].endDate = NaN

\* The minutes of the day of an instant.
MinutesOfDay(ts) == getHours(ts) * 60 + getMinutes(ts)

\* The event's startTimeMinutes and endTimeMinutes are the minutes of the day of
\* its start and end instants, and it starts before it ends.
MinutesOfInstants(e) ==
  /\ ValidDates(e)
  /\ e.startTimeMinutes = MinutesOfDay(e.startDate)
  /\ e.endTimeMinutes = MinutesOfDay(e.endDate)
  /\ e.startDate < e.endDate

\* The event that the last buildSegments, addDaySegment or removeDaySegment was
\* called on, as it was before the call (buildSegments leaves its dates and
\* minutes as they are).
SegmentedEvent == IF last.op = "build" THEN events[last.eid] ELSE last.pre

\* C24: every segment that buildSegments, addDaySegment or removeDaySegment
\* leaves in an event whose minutes are those of its instants and that starts
\* before it ends has 0 <= startTimeMinutes <= endTimeMinutes <= 1440, also
\* when the event ends at 00:00.
C24_SegmentMinutesOrdered ==
  (/\ last.op \in {"build", "add", "remove", "addThenRemove"} /\ ~last.threw
   /\ MinutesOfInstants(SegmentedEvent))
  => \A key \in DOMAIN events[last.eid].segments :
       LET seg == events[last.eid].segments[key]
       IN /\ 0 <= seg.startTimeMinutes
          /\ seg.startTimeMinutes <= seg.endTimeMinutes
          /\ seg.endTimeMinutes <= minutesInADay

\* buildSegments of an event from 18:00 to 00:00 of the next day that does not
\* repeat: its only segment runs from minute 1080 to minute 0.
C24_Witness ==
  /\ last.op = "build"
  /\ MinutesOfInstants(SegmentedEvent) /\ ~isRepeat(SegmentedEvent)
  /\ SegmentedEvent.startTimeMinutes = 18 * 60
  /\ SegmentedEvent.endTimeMinutes = 0
  /\ SegmentedEvent.endDate = SegmentedEvent.startDate + 6 * 3600000
  /\ KeysLength(events[last.eid].segments) = 1
  /\ \E key \in DOMAIN events[last.eid].segments :
       /\ events[last.eid].segments[key].startTimeMinutes = 18 * 60
       /\ events[last.eid].segments[key].endTimeMinutes = 0
       /\ events[last.eid].segments[key].isFirstDay
       /\ events[last.eid].segments[key].isLastDay

\* removeDaySegment of an event from 18:00 to 02:00 of the next day: the
\* segment of the first day runs from minute 1080 to minute 120.
C24_WitnessRemove ==
  /\ last.op \in {"remove", "addThenRemove"} /\ ~last.threw
  /\ MinutesOfInstants(SegmentedEvent) /\ ~isRepeat(SegmentedEvent)
  /\ SegmentedEvent.endTimeMinutes = 2 * 60
  /\ \E key \in DOMAIN events[last.eid].segments :
       /\ events[last.eid].segments[key].startTimeMinutes = 18 * 60
       /\ events[last.eid].segments[key].endTimeMinutes = 2 * 60

====
